---- MODULE Spec2Model ----
(***************************************************************************)
(* mongoquick: the encrypted profile store (SecureProfileStore) and the    *)
(* pooled connection manager (SmartConnectionManager).                     *)
(*                                                                         *)
(* JavaScript values are tagged records [t, v]; an object is a function    *)
(* from the keys it holds to values, so that a key that is absent and a    *)
(* key that holds undefined are told apart, as the spread operator and     *)
(* JSON.stringify tell them apart. A string is a sequence of text units;   *)
(* the scheme prefix of a uri is one unit.                                 *)
(***************************************************************************)
EXTENDS Integers, Sequences, FiniteSets, Bags, TLC

VARIABLES
  file,            \* profiles.json: Absent, or the parsed ProfileStorage container
  fileMtime,       \* mtime of profiles.json in ms (0 while absent)
  cachedProfiles,  \* SecureProfileStore.cachedProfiles, a Map in insertion order
  lastModified,    \* SecureProfileStore.lastModified
  now,             \* the wall clock, Date.now()
  ret,             \* the last store call: its operation, argument and outcome
  connections,     \* SmartConnectionManager.connections, keyed by profile name
  circuitBreakers, \* SmartConnectionManager.circuitBreakers, keyed by profile name
  tasks,           \* the bag of manager calls in flight, each suspended on an await
  settled,         \* the manager call that settled last, and how
  streak,          \* per name, the failed fresh attempts since the last success
  cleanupInterval, \* SmartConnectionManager.cleanupInterval, the reaper's timer
  paths,            \* which inode the profiles file and its ".tmp" sibling name
  inodes,          \* the content of each inode
  savers           \* the saveProfiles calls in progress, one file system call at a time

vars ==
  <<file, fileMtime, cachedProfiles, lastModified, now, ret,
    connections, circuitBreakers, tasks, settled, streak, cleanupInterval,
    paths, inodes, savers>>

fsVars == <<paths, inodes, savers>>

storeVars == <<file, fileMtime, cachedProfiles, lastModified, ret, fsVars>>

managerVars == <<connections, circuitBreakers, tasks, settled, streak, cleanupInterval>>

-----------------------------------------------------------------------------
(* Bounds                                                                  *)

MaxStoreClock == 2

MaxTasks == 2

MaxTests == 1

MaxTicks == 3

MaxSweeps == 6

MaxCalls == 1

-----------------------------------------------------------------------------
(* JavaScript values                                                       *)

Undefined == [t |-> "undefined", v |-> <<>>]

Null == [t |-> "null", v |-> <<>>]

Str(s) == [t |-> "string", v |-> s]

Bool(b) == [t |-> "boolean", v |-> b]

DateOf(ms) == [t |-> "Date", v |-> ms]

IsoString(ms) == [t |-> "isostring", v |-> ms]

Obj(f) == [t |-> "object", v |-> f]

EmptyObject == [k \in {} |-> Undefined]

\* o[k] of JavaScript: undefined for a key the object does not hold.
Field(o, k) == IF k \in DOMAIN o THEN o[k] ELSE Undefined

\* { ...a, ...b }: the keys of both, b's value where both hold the key.
\* Spreading undefined adds nothing.
SpreadOf(x) == IF x.t = "object" THEN x.v ELSE EmptyObject

Spread(a, b) == [k \in (DOMAIN a) \cup (DOMAIN b) |-> IF k \in DOMAIN b THEN b[k] ELSE a[k]]

\* Truthiness of the values the store tests with !x, x?.y and x || y.
Truthy(x) ==
  CASE x.t = "undefined" -> FALSE
    [] x.t = "null" -> FALSE
    [] x.t = "boolean" -> x.v
    [] x.t = "string" -> Len(x.v) > 0
    [] x.t = "number" -> x.v # 0
    [] OTHER -> TRUE

\* x?.k
OptField(x, k) == IF x.t = "object" THEN Field(x.v, k) ELSE Undefined

StartsWith(s, p) == Len(s) >= Len(p) /\ SubSeq(s, 1, Len(p)) = p

\* const x = v; F(x): v is evaluated once, before F.
Bind(v, F(_)) == CHOOSE r \in {F(x) : x \in {v}} : TRUE

-----------------------------------------------------------------------------
(* Text, bytes and the cipher                                              *)

\* The text units well-formed strings are made of; "U+FFFD" is the
\* replacement character a byte that is no text decodes to.
Units == <<"mongodb://", "mongodb+srv://", "http://", "h", "db", "U+FFFD">>

UnitSet == {Units[i] : i \in 1..Len(Units)}

IndexOf == [u \in UnitSet |-> CHOOSE i \in 1..Len(Units) : Units[i] = u]

\* The byte a unit is written as.
Utf8Byte(u) == 64 + IndexOf[u]

Utf8Encode(s) == [i \in 1..Len(s) |-> Utf8Byte(s[i])]

Utf8Unit(b) == IF b - 64 \in 1..Len(Units) THEN Units[b - 64] ELSE "U+FFFD"

Utf8Decode(bytes) == [i \in 1..Len(bytes) |-> Utf8Unit(bytes[i])]

HexDigits == <<"0", "1", "2", "3", "4", "5", "6", "7", "8", "9", "a", "b", "c", "d", "e", "f">>

HexValue == [d \in {HexDigits[i] : i \in 1..16} |-> (CHOOSE i \in 1..16 : HexDigits[i] = d) - 1]

\* buffer.toString('hex')
HexEncode(bytes) ==
  [i \in 1..(2 * Len(bytes)) |->
     IF (i % 2) = 1 THEN HexDigits[(bytes[(i + 1) \div 2] \div 16) + 1]
     ELSE HexDigits[(bytes[i \div 2] % 16) + 1]]

\* Buffer.from(text, 'hex')
HexDecode(hex) ==
  [i \in 1..(Len(hex) \div 2) |-> 16 * HexValue[hex[2 * i - 1]] + HexValue[hex[2 * i]]]

RECURSIVE XorBits(_, _)
XorBits(a, b) ==
  IF a = 0 /\ b = 0 THEN 0
  ELSE (((a % 2) + (b % 2)) % 2) + 2 * XorBits(a \div 2, b \div 2)

XorNibble == [a \in 0..15 |-> [b \in 0..15 |-> XorBits(a, b)]]

\* a XOR b on bytes
Xor(a, b) == 16 * XorNibble[a \div 16][b \div 16] + XorNibble[a % 16][b % 16]

ENCRYPTION_KEY == "default-key-change-in-production"

\* createHash('sha256').update(secret).digest(), cut to one byte.
Sha256(secret) == IF secret = "default-key-change-in-production" THEN 91 ELSE 200

getEncryptionKey == Sha256(ENCRYPTION_KEY)

\* The block cipher, on blocks of one byte: a keyed permutation of 0..255.
BlockEncrypt(key, x) == (3 * x + key) % 256

BlockDecrypt(key, y) == (171 * (y - key + 256)) % 256

\* PKCS#7 on blocks of one byte: one whole block of padding, each byte the
\* padding's length.
Pkcs7Pad(bytes) == Append(bytes, 1)

RECURSIVE CbcEncrypt(_, _, _)
CbcEncrypt(key, prev, plain) ==
  IF plain = <<>> THEN <<>>
  ELSE LET c == BlockEncrypt(key, Xor(Head(plain), prev))
       IN <<c>> \o CbcEncrypt(key, c, Tail(plain))

\* A decryption that never chains: every block is XORed with the iv.
CbcDecryptUnchained(key, iv, cipher) ==
  [i \in 1..Len(cipher) |-> Xor(BlockDecrypt(key, cipher[i]), iv)]

CbcDecrypt(key, iv, cipher) ==
  [i \in 1..Len(cipher) |->
     Xor(BlockDecrypt(key, cipher[i]), IF i = 1 THEN iv ELSE cipher[i - 1])]

\* randomBytes(16), one byte of it
IVs == {17, 165}

\* cipher.update(uri, 'utf8', 'hex') + cipher.final('hex')
EncryptUri(uri, iv) == HexEncode(CbcEncrypt(getEncryptionKey, iv, Pkcs7Pad(Utf8Encode(uri))))

\* decipher.update(text, 'hex', 'utf8') + decipher.final('utf8'); final
\* throws on bad padding.
DecryptUri(encryptedUri, ivHex) ==
  Bind(HexDecode(ivHex),
       LAMBDA ivb :
         Bind(HexDecode(encryptedUri),
              LAMBDA cipher :
                Bind(IF Len(ivb) = 1 THEN CbcDecrypt(getEncryptionKey, ivb[1], cipher)
                     ELSE <<>>,
                     LAMBDA plain :
                       IF Len(plain) > 0 /\ plain[Len(plain)] = 1
                       THEN [ok |-> TRUE,
                             uri |-> Utf8Decode(SubSeq(plain, 1, Len(plain) - 1))]
                       ELSE [ok |-> FALSE, uri |-> <<>>])))

-----------------------------------------------------------------------------
(* Profiles, stored profiles and JSON                                      *)

\* JSON.stringify then JSON.parse of a value: a Date comes back as its ISO
\* text.
JsonLeaf(x) == IF x.t = "Date" THEN IsoString(x.v) ELSE x

\* ... of an object of leaves: keys holding undefined are not written.
JsonObject(o) == [k \in {j \in DOMAIN o : o[j].t # "undefined"} |-> JsonLeaf(o[k])]

\* ... of a StoredProfile
JsonStored(o) ==
  [k \in {j \in DOMAIN o : o[j].t # "undefined"} |->
     IF o[k].t = "object" THEN Obj(JsonObject(o[k].v)) ELSE JsonLeaf(o[k])]

\* An encryptProfile that copies every field of the profile, the uri too.
encryptProfileSpreading(profile, iv, t) ==
  Spread(profile,
         [name |-> Field(profile, "name"),
          encryptedUri |-> Str(EncryptUri(Field(profile, "uri").v, iv)),
          metadata |-> IF Truthy(Field(profile, "metadata")) THEN Field(profile, "metadata")
                       ELSE Obj([createdAt |-> DateOf(t)]),
          iv |-> Str(HexEncode(<<iv>>))])

encryptProfile(profile, iv, t) ==
  [name |-> Field(profile, "name"),
   encryptedUri |-> Str(EncryptUri(Field(profile, "uri").v, iv)),
   database |-> Field(profile, "database"),
   alias |-> Field(profile, "alias"),
   metadata |-> IF Truthy(Field(profile, "metadata")) THEN Field(profile, "metadata")
                ELSE Obj([createdAt |-> DateOf(t)]),
   iv |-> Str(HexEncode(<<iv>>))]

\* [ok, profile]: ok is FALSE where decryptProfile throws.
decryptProfile(stored) ==
  Bind(IF Field(stored, "iv").t = "string" /\ Field(stored, "encryptedUri").t = "string"
       THEN DecryptUri(stored["encryptedUri"].v, stored["iv"].v)
       ELSE [ok |-> FALSE, uri |-> <<>>],
       LAMBDA d :
         [ok |-> d.ok,
          profile |-> [name |-> Field(stored, "name"),
                       uri |-> Str(d.uri),
                       database |-> Field(stored, "database"),
                       alias |-> Field(stored, "alias"),
                       metadata |-> Field(stored, "metadata")]])

\* A Map<string, ConnectionProfile> is the sequence of its values in
\* insertion order, which is the order its iterators follow.
NameOf(profile) == Field(profile, "name")

MapHas(m, name) == \E i \in 1..Len(m) : NameOf(m[i]) = name

MapIndex(m, name) == CHOOSE i \in 1..Len(m) : NameOf(m[i]) = name

MapGet(m, name) == IF MapHas(m, name) THEN Obj(m[MapIndex(m, name)]) ELSE Undefined

\* m.set(name, value): in place for a key the map holds, at the end otherwise.
MapSet(m, name, value) ==
  IF MapHas(m, name) THEN [m EXCEPT ![MapIndex(m, name)] = value] ELSE Append(m, value)

MapDelete(m, name) ==
  IF MapHas(m, name)
  THEN SubSeq(m, 1, MapIndex(m, name) - 1) \o SubSeq(m, MapIndex(m, name) + 1, Len(m))
  ELSE m

-----------------------------------------------------------------------------
(* SecureProfileStore: each method as a function of the store's state S    *)
(* (the file, its mtime, the cache, lastModified, the clock) and of the     *)
(* values it draws: the initialization vectors and the milliseconds that    *)
(* pass between writing the file and reading Date.now().                    *)

Absent == [exists |-> FALSE]

\* A validation that looks at the name only.
validateName(profile) ==
  LET name == Field(profile, "name")
  IN IF ~Truthy(name) \/ name.t # "string" THEN "NameRequired"
     ELSE IF \E i \in 1..Len(name.v) : name.v[i] \notin {"a", "b", "c", "A", "0", "_", "-"}
          THEN "InvalidName"
     ELSE "ok"

\* validateProfile: "ok", or the error it throws.
validateProfile(profile) ==
  LET name == Field(profile, "name")
      uri == Field(profile, "uri")
  IN IF ~Truthy(name) \/ name.t # "string" THEN "NameRequired"
     ELSE IF \E i \in 1..Len(name.v) : name.v[i] \notin {"a", "b", "c", "A", "0", "_", "-"}
          THEN "InvalidName"
     ELSE IF ~Truthy(uri) \/ uri.t # "string" THEN "UriRequired"
     ELSE IF ~StartsWith(uri.v, <<"mongodb://">>) /\ ~StartsWith(uri.v, <<"mongodb+srv://">>)
          THEN "InvalidUri"
     ELSE "ok"

\* loadStorage: the container read from the file, an empty one if absent.
loadStorage(S) ==
  IF S.file # Absent THEN S.file
  ELSE [profiles |-> <<>>, version |-> "2.0.0", createdAt |-> IsoString(S.now)]

\* A loop that the first stored profile which does not decrypt ends.
RECURSIVE DecryptUntilFailure(_, _)
DecryptUntilFailure(stored, acc) ==
  IF stored = <<>> THEN acc
  ELSE Bind(decryptProfile(Head(stored)),
            LAMBDA d : IF d.ok
                       THEN DecryptUntilFailure(Tail(stored),
                                                MapSet(acc, NameOf(d.profile), d.profile))
                       ELSE acc)

\* The loop of loadProfiles: each stored profile that decrypts is set in a
\* new map, the others are skipped.
RECURSIVE DecryptAll(_, _)
DecryptAll(stored, acc) ==
  IF stored = <<>> THEN acc
  ELSE Bind(decryptProfile(Head(stored)),
            LAMBDA d : Bind(IF d.ok THEN MapSet(acc, NameOf(d.profile), d.profile) ELSE acc,
                            LAMBDA next : DecryptAll(Tail(stored), next)))

CacheIsFresh(S) ==
  S.file # Absent /\ S.fileMtime = S.lastModified /\ Len(S.cachedProfiles) > 0

\* The error of a file system call that fails for another reason than a
\* missing file: S.fault names the call that fails during this method, and
\* S.raised records that it was made and threw.
IoError == "EACCES"

Raise(S) == [S EXCEPT !.raised = IoError]

\* loadProfiles: the map it returns and the state it leaves, or the error it
\* throws again. A stat that finds no file gives an empty map.
loadProfiles(S) ==
  IF S.fault = "stat" THEN [profiles |-> <<>>, S |-> Raise(S), error |-> IoError]
  ELSE IF S.file = Absent THEN [profiles |-> <<>>, S |-> S, error |-> "none"]
  ELSE IF CacheIsFresh(S) THEN [profiles |-> S.cachedProfiles, S |-> S, error |-> "none"]
  ELSE IF S.fault = "readFile" THEN [profiles |-> <<>>, S |-> Raise(S), error |-> IoError]
  ELSE Bind(DecryptAll(loadStorage(S).profiles, <<>>),
            LAMBDA loaded :
              [profiles |-> loaded,
               S |-> [S EXCEPT !.cachedProfiles = loaded, !.lastModified = S.fileMtime],
               error |-> "none"])

\* saveProfiles: every profile encrypted anew into the container, written to
\* the temporary file and renamed over the target at S.now; d milliseconds
\* later the cache and lastModified are set.
saveProfiles(S, profiles, ivs, d) ==
  [file |-> [loadStorage(S) EXCEPT
               !.profiles = [i \in 1..Len(profiles) |->
                               JsonStored(encryptProfile(profiles[i], ivs[i], S.now))]],
   fileMtime |-> S.now,
   cachedProfiles |-> profiles,
   lastModified |-> S.now + d,
   now |-> S.now + d,
   fault |-> S.fault,
   raised |-> S.raised]

Outcome(S, result, value) == [S |-> S, result |-> result, value |-> value]

\* const profiles = await this.loadProfiles(): what the method goes on to
\* do with the map, unless the load throws.
AfterLoad(S, Then(_)) ==
  Bind(loadProfiles(S),
       LAMBDA l : IF l.error # "none" THEN Outcome(l.S, l.error, Undefined) ELSE Then(l))

\* await this.saveProfiles(profiles), then the method returns value. The
\* method has changed in place the Map it loaded, which is the cache unless
\* no file was found; a save that throws (reading the container, writing the
\* temporary file) leaves it so.
Saved(S, profiles, ivs, d, value) ==
  IF (S.fault = "readFile" /\ S.file # Absent) \/ S.fault = "writeFile"
  THEN Outcome(Raise([S EXCEPT !.cachedProfiles = IF S.file # Absent THEN profiles ELSE @]),
               IoError, Undefined)
  ELSE Outcome(saveProfiles(S, profiles, ivs, d), "ok", value)

list(S) == AfterLoad(S, LAMBDA l : Outcome(l.S, "ok", l.profiles))

get(S, name) ==
  AfterLoad(S,
       LAMBDA l : Outcome(l.S, "ok",
                          IF MapHas(l.profiles, name) THEN MapGet(l.profiles, name) ELSE Null))

\* { ...profile, metadata: { ...profile.metadata, createdAt: new Date() } }
Stamped(profile, t) ==
  Spread(profile, [metadata |-> Obj(Spread(SpreadOf(Field(profile, "metadata")),
                                           [createdAt |-> DateOf(t)]))])

\* An add that does not look for the name: it overwrites.
addOverwriting(S, profile, ivs, d) ==
  IF validateProfile(profile) # "ok" THEN Outcome(S, validateProfile(profile), Undefined)
  ELSE AfterLoad(S,
            LAMBDA l :
              Bind(MapSet(l.profiles, NameOf(profile), Stamped(profile, l.S.now)),
                   LAMBDA profiles :
                     Saved(l.S, profiles, ivs, d, Undefined)))

add(S, profile, ivs, d) ==
  IF validateProfile(profile) # "ok" THEN Outcome(S, validateProfile(profile), Undefined)
  ELSE AfterLoad(S,
            LAMBDA l :
              IF MapHas(l.profiles, NameOf(profile))
              THEN Outcome(l.S, "DuplicateName", Undefined)
              ELSE Bind(MapSet(l.profiles, NameOf(profile), Stamped(profile, l.S.now)),
                        LAMBDA profiles :
                          Saved(l.S, profiles, ivs, d, Undefined)))

remove(S, name, ivs, d) ==
  AfterLoad(S,
       LAMBDA l :
         IF MapHas(l.profiles, name)
         THEN Bind(MapDelete(l.profiles, name),
                   LAMBDA profiles :
                     Saved(l.S, profiles, ivs, d, Bool(TRUE)))
         ELSE Outcome(l.S, "ok", Bool(FALSE)))

\* { ...existing, ...updates, name }: the metadata of updates replaces the old.
MergedShallow(existing, updates, name) ==
  Spread(Spread(existing, updates), [name |-> name])

\* { ...existing, ...updates, name, metadata: { ...existing.metadata, ...updates.metadata } }
Merged(existing, updates, name) ==
  Spread(Spread(Spread(existing, updates), [name |-> name]),
         [metadata |-> Obj(Spread(SpreadOf(Field(existing, "metadata")),
                                  SpreadOf(Field(updates, "metadata"))))])

update(S, name, updates, ivs, d) ==
  AfterLoad(S,
       LAMBDA l :
         IF ~MapHas(l.profiles, name) THEN Outcome(l.S, "ok", Bool(FALSE))
         ELSE Bind(Merged(MapGet(l.profiles, name).v, updates, name),
                   LAMBDA updated :
                     IF validateProfile(updated) # "ok"
                     THEN Outcome(l.S, validateProfile(updated), Undefined)
                     ELSE Bind(MapSet(l.profiles, name, updated),
                               LAMBDA profiles :
                                 Saved(l.S, profiles, ivs, d, Bool(TRUE)))))

IsDefault(profile) == Truthy(OptField(Field(profile, "metadata"), "isDefault"))

\* { ...profile, metadata: { ...profile.metadata, isDefault: b } }
WithIsDefault(profile, b) ==
  Spread(profile, [metadata |-> Obj(Spread(SpreadOf(Field(profile, "metadata")),
                                           [isDefault |-> Bool(b)]))])

\* A loop that clears nothing.
ClearNoDefault(profiles) == profiles

\* The loop of setDefault: isDefault set to false on each profile that has it set.
ClearDefaults(profiles) ==
  [i \in 1..Len(profiles) |->
     IF IsDefault(profiles[i]) THEN WithIsDefault(profiles[i], FALSE) ELSE profiles[i]]

\* A setDefault that clears the defaults before it looks for the name.
setDefaultClearing(S, name, ivs, d) ==
  AfterLoad(S,
       LAMBDA l :
         IF ~MapHas(l.profiles, name)
         THEN Saved(l.S, ClearDefaults(l.profiles), ivs, d, Bool(FALSE))
         ELSE Bind(MapSet(ClearDefaults(l.profiles), name,
                          WithIsDefault(MapGet(l.profiles, name).v, TRUE)),
                   LAMBDA profiles :
                     Saved(l.S, profiles, ivs, d, Bool(TRUE))))

setDefault(S, name, ivs, d) ==
  AfterLoad(S,
       LAMBDA l :
         IF ~MapHas(l.profiles, name) THEN Outcome(l.S, "ok", Bool(FALSE))
         ELSE Bind(MapSet(ClearDefaults(l.profiles), name,
                          WithIsDefault(MapGet(l.profiles, name).v, TRUE)),
                   LAMBDA profiles :
                     Saved(l.S, profiles, ivs, d, Bool(TRUE))))

\* The first index of profiles, in the map's order, with isDefault set; 0 if none.
RECURSIVE FirstDefault(_, _)
FirstDefault(profiles, i) ==
  IF i > Len(profiles) THEN 0
  ELSE IF IsDefault(profiles[i]) THEN i
  ELSE FirstDefault(profiles, i + 1)

getDefault(S) ==
  AfterLoad(S,
       LAMBDA l :
         Bind(FirstDefault(l.profiles, 1),
              LAMBDA i : Outcome(l.S, "ok", IF i = 0 THEN Null ELSE Obj(l.profiles[i]))))

Num(n) == [t |-> "number", v |-> n]

\* export: the container as text, still encrypted.
export(S) ==
  IF S.fault = "readFile" /\ S.file # Absent THEN Outcome(Raise(S), IoError, Undefined)
  ELSE Outcome(S, "ok", [t |-> "json", v |-> loadStorage(S)])

\* A loop that leaves after its first entry.
importFirst(S, stored, importCount, ivs, ds) ==
  IF stored = <<>> THEN Outcome(S, "ok", Num(importCount))
  ELSE Bind(decryptProfile(Head(stored)),
            LAMBDA dec :
              IF ~dec.ok THEN Outcome(S, "ok", Num(importCount))
              ELSE Bind(add(S, dec.profile, ivs, Head(ds)),
                        LAMBDA a : Outcome(a.S, "ok",
                                           Num(IF a.result = "ok" THEN importCount + 1
                                               ELSE importCount))))

\* A loop that an entry which throws ends.
RECURSIVE importStopping(_, _, _, _, _)
importStopping(S, stored, importCount, ivs, ds) ==
  IF stored = <<>> THEN Outcome(S, "ok", Num(importCount))
  ELSE Bind(decryptProfile(Head(stored)),
            LAMBDA dec :
              IF ~dec.ok THEN Outcome(S, "ok", Num(importCount))
              ELSE Bind(add(S, dec.profile, ivs, Head(ds)),
                        LAMBDA a :
                          IF a.result # "ok" THEN Outcome(a.S, "ok", Num(importCount))
                          ELSE importStopping(a.S, Tail(stored), importCount + 1,
                                              ivs, Tail(ds))))

\* The loop of import: each entry is decrypted and added; one that throws is
\* skipped.
RECURSIVE importLoop(_, _, _, _, _)
importLoop(S, stored, importCount, ivs, ds) ==
  IF stored = <<>> THEN Outcome(S, "ok", Num(importCount))
  ELSE Bind(decryptProfile(Head(stored)),
            LAMBDA dec :
              IF ~dec.ok THEN importLoop(S, Tail(stored), importCount, ivs, Tail(ds))
              ELSE Bind(add(S, dec.profile, ivs, Head(ds)),
                        LAMBDA a :
                          importLoop(a.S, Tail(stored),
                                     IF a.result = "ok" THEN importCount + 1
                                     ELSE importCount,
                                     ivs, Tail(ds))))

\* import: data is [t |-> "json", v |-> container], or text JSON.parse rejects.
import(S, data, ivs, ds) ==
  IF data.t # "json" THEN Outcome(S, "InvalidImportData", Undefined)
  ELSE importLoop(S, data.v.profiles, 0, ivs, ds)

-----------------------------------------------------------------------------
(* The calls made on the store                                             *)

NameA == Str(<<"a">>)

NameB == Str(<<"b", "-", "0">>)

NameC == Str(<<"c">>)

StoreNames == {NameA, NameB, NameC}

UriPlain == Str(<<"mongodb://", "h">>)

UriSrv == Str(<<"mongodb+srv://", "h">>)

UriLong == Str(<<"mongodb://", "h", "h", "db">>)

Db == Str(<<"db">>)

AddInputs ==
  { [name |-> NameA, uri |-> UriPlain, database |-> Db, alias |-> Undefined,
     metadata |-> Obj([isDefault |-> Bool(TRUE)])],
    [name |-> NameB, uri |-> UriLong,
     metadata |-> Obj([createdAt |-> DateOf(0), isDefault |-> Bool(TRUE)])],
    [name |-> NameC, uri |-> UriSrv, database |-> Db],
    [name |-> Str(<<"a", " ">>), uri |-> UriPlain],
    [name |-> NameA, uri |-> Str(<<"h">>)] }

UpdateInputs ==
  { [metadata |-> Obj([isDefault |-> Bool(TRUE)])],
    [uri |-> Str(<<"http://", "h">>)] }

\* Fields that carry another name, and fields that carry a metadata key.
MergeInputs ==
  { [name |-> NameC, uri |-> UriLong, metadata |-> Obj([description |-> Str(<<"h">>)])],
    [database |-> Str(<<"h">>), metadata |-> Obj([isDefault |-> Bool(FALSE)])] }

\* Containers exported elsewhere with the same secret: one whose first entry
\* has a ciphertext that does not decrypt; one with a name twice, a name
\* validateProfile rejects, and a uri it rejects; and text that is not JSON.
ImportInputs ==
  { [t |-> "json",
     v |-> [profiles |-> <<[name |-> NameA, encryptedUri |-> Str(<<"0", "0">>),
                            iv |-> Str(<<"1", "1">>), metadata |-> Obj(EmptyObject)],
                           JsonStored(encryptProfile(
                             [name |-> NameB, uri |-> UriSrv,
                              metadata |-> Obj([createdAt |-> DateOf(0),
                                                isDefault |-> Bool(TRUE)])], 17, 0))>>,
            version |-> "2.0.0", createdAt |-> IsoString(0)]],
    [t |-> "json",
     v |-> [profiles |-> <<JsonStored(encryptProfile(
                             [name |-> NameC, uri |-> UriSrv,
                              metadata |-> Obj([createdAt |-> DateOf(0)])], 165, 0)),
                           JsonStored(encryptProfile(
                             [name |-> NameC, uri |-> UriPlain,
                              metadata |-> Obj([createdAt |-> DateOf(0)])], 17, 0)),
                           JsonStored(encryptProfile(
                             [name |-> Str(<<"a", " ">>), uri |-> UriPlain,
                              metadata |-> Obj([createdAt |-> DateOf(0)])], 17, 0)),
                           JsonStored(encryptProfile(
                             [name |-> NameB, uri |-> Str(<<"http://", "h">>),
                              metadata |-> Obj([createdAt |-> DateOf(0)])], 17, 0)),
                           JsonStored(encryptProfile(
                             [name |-> NameA, uri |-> UriLong, database |-> Db,
                              metadata |-> Obj([createdAt |-> DateOf(0)])], 165, 0))>>,
            version |-> "2.0.0", createdAt |-> IsoString(0)]],
    [t |-> "text", v |-> <<>>] }

IoDelays == {0, 1}

\* The bytes randomBytes returns to the calls of one save.
IvChoices == {<<17, 165, 17>>, <<165, 17, 165>>}

Store ==
  [file |-> file, fileMtime |-> fileMtime, cachedProfiles |-> cachedProfiles,
   lastModified |-> lastModified, now |-> now, fault |-> "none", raised |-> "none"]

\* The call returns (or throws): the store is left in o.S, and ret records
\* the call and its outcome; for a setDefault that succeeds right after a
\* setDefault that succeeded, ret.after is the name the earlier one set.
Return(outcome, op, name, arg) ==
  \E o \in {outcome} :
  /\ o.S.now <= MaxStoreClock
  /\ file' = o.S.file
  /\ fileMtime' = o.S.fileMtime
  /\ cachedProfiles' = o.S.cachedProfiles
  /\ lastModified' = o.S.lastModified
  /\ now' = o.S.now
  /\ UNCHANGED <<fsVars, managerVars>>
  /\ ret' = [op |-> op, name |-> name, arg |-> arg, result |-> o.result, value |-> o.value,
             after |-> IF op = "setDefault" /\ o.value = Bool(TRUE)
                          /\ ret.op = "setDefault" /\ ret.value = Bool(TRUE)
                       THEN ret.name ELSE Undefined,
             raised |-> o.S.raised]

\* The values a call draws: a call that does not save draws none.
Draws(saves) == IF saves THEN IvChoices \X IoDelays ELSE {<<<<17, 165, 17>>, 0>>}

\* The draws of a save that encrypts again what an add has encrypted.
Redraws(saves) == IF saves THEN {<<17, 165, 17>>} \X IoDelays ELSE {<<<<17, 165, 17>>, 0>>}

List == Return(list(Store), "list", Undefined, EmptyObject)

Get == \E name \in StoreNames : Return(get(Store, name), "get", name, EmptyObject)

Add ==
  \E profile \in AddInputs :
    \E c \in Draws(add(Store, profile, <<17, 165, 17>>, 0).result = "ok") :
      Return(add(Store, profile, c[1], c[2]), "add", NameOf(profile), profile)

Remove ==
  \E name \in StoreNames :
    \E c \in Redraws(MapHas(loadProfiles(Store).profiles, name)) :
      Return(remove(Store, name, c[1], c[2]), "remove", name, EmptyObject)

UpdateWith(inputs) ==
  \E name \in StoreNames, updates \in inputs :
    \E c \in Redraws(update(Store, name, updates, <<17, 165, 17>>, 0).value = Bool(TRUE)) :
      Return(update(Store, name, updates, c[1], c[2]), "update", name, updates)

Update == UpdateWith(UpdateInputs)

UpdateMerging == UpdateWith(MergeInputs)

SetDefault ==
  \E name \in StoreNames :
    \E c \in Redraws(MapHas(loadProfiles(Store).profiles, name)) :
      Return(setDefault(Store, name, c[1], c[2]), "setDefault", name, EmptyObject)

GetDefault == Return(getDefault(Store), "getDefault", Undefined, EmptyObject)

Export == Return(export(Store), "export", Undefined, EmptyObject)

\* The milliseconds each of n saves takes: at most one of them takes one.
SaveDelays(n) == {[i \in 1..n |-> IF i = k THEN 1 ELSE 0] : k \in 0..n}

Import ==
  \E data \in ImportInputs :
    \E ivs \in IvChoices,
       ds \in SaveDelays(IF data.t = "json" THEN Len(data.v.profiles) ELSE 0) :
      Return(import(Store, data, ivs, ds), "import", Undefined, [data |-> data])

\* new SecureProfileStore(configDir) on a directory that holds no file.
FreshStore(t) ==
  [file |-> Absent, fileMtime |-> 0, cachedProfiles |-> <<>>, lastModified |-> 0, now |-> t,
   fault |-> "none", raised |-> "none"]

\* The text export() has just returned is imported by a store constructed on
\* an empty directory, under the same secret; from this step on the
\* variables of the store are those of the new store.
ImportFresh ==
  /\ ret.op = "export"
  /\ \E ivs \in IvChoices, ds \in IoDelays \X IoDelays \X IoDelays :
       Return(import(FreshStore(now), ret.value, ivs, ds), "importFresh", Undefined,
              [data |-> ret.value])

\* The file system calls that may fail with an error other than a missing
\* file: fs.stat, fs.readFile, and fs.writeFile of the temporary file.
Faults == {"stat", "readFile", "writeFile"}

\* The store during a method in which the call `fault` fails.
StoreUnder(fault) == [Store EXCEPT !.fault = fault]

\* The last call met no failing file system call: the store is followed up
\* to the first call that does.
NoFaultYet == ret.raised = "none"

AddBeforeFault == NoFaultYet /\ Add

ListBeforeFault == NoFaultYet /\ List

\* The methods that read, while a file system call fails.
ReadUnderFault ==
  \E fault \in {f \in Faults : NoFaultYet} :
    \/ Return(list(StoreUnder(fault)), "list", Undefined, EmptyObject)
    \/ \E name \in StoreNames : Return(get(StoreUnder(fault), name), "get", name, EmptyObject)
    \/ Return(getDefault(StoreUnder(fault)), "getDefault", Undefined, EmptyObject)
    \/ Return(export(StoreUnder(fault)), "export", Undefined, EmptyObject)

\* The methods that write, while the file system call fault fails.
WriteUnder(fault) ==
  \E name \in StoreNames :
    \/ \E profile \in AddInputs :
         Return(add(StoreUnder(fault), profile, <<17, 165, 17>>, 0), "add",
                NameOf(profile), profile)
    \/ Return(remove(StoreUnder(fault), name, <<17, 165, 17>>, 0), "remove", name,
              EmptyObject)
    \/ \E updates \in UpdateInputs :
         Return(update(StoreUnder(fault), name, updates, <<17, 165, 17>>, 0), "update",
                name, updates)
    \/ Return(setDefault(StoreUnder(fault), name, <<17, 165, 17>>, 0), "setDefault", name,
              EmptyObject)

WriteUnderFault == \E fault \in {f \in Faults : NoFaultYet} : WriteUnder(fault)

\* The methods that write, while fs.writeFile of the temporary file fails.
WriteFails == NoFaultYet /\ WriteUnder("writeFile")

SetDefaultBeforeFault == NoFaultYet /\ SetDefault

\* import, while a file system call fails.
ImportUnderFault ==
  \E fault \in {f \in Faults : NoFaultYet}, data \in ImportInputs :
    Return(import(StoreUnder(fault), data, <<17, 165, 17>>, <<0, 0, 0, 0, 0>>), "import",
           Undefined, [data |-> data])

\* list() called right after a list() that returned, nothing written and the
\* file untouched in between, at a moment when fs.readFile would fail: the
\* call throws exactly when it reads the file.
ListAgain ==
  /\ ret.op \in {"list", "listAgain"}
  /\ ret.result = "ok"
  /\ Return(list(StoreUnder("readFile")), "listAgain", Undefined, EmptyObject)

\* list() called right after a mutation that returned, the file untouched in
\* between, at a moment when fs.readFile would fail.
ListAfterWrite ==
  /\ ret.op \in {"add", "remove", "update", "setDefault"}
  /\ ret.result = "ok"
  /\ Return(list(StoreUnder("readFile")), "listAfterWrite", Undefined, EmptyObject)

\* A stored profile as damage outside the store leaves it: its ciphertext
\* overwritten, or its iv emptied.
Damaged(stored, how) ==
  IF how = "encryptedUri" THEN Spread(stored, [encryptedUri |-> Str(<<"0", "0">>)])
  ELSE Spread(stored, [iv |-> Str(<<>>)])

\* Something other than this store rewrites profiles.json a millisecond
\* later, some of its entries damaged; the store is not told.
ForeignWrite ==
  /\ file # Absent
  /\ now + 1 <= MaxStoreClock
  /\ \E hit \in (SUBSET (1..Len(file.profiles))) \ {{}}, how \in {"encryptedUri", "iv"} :
       file' = [file EXCEPT !.profiles = [i \in 1..Len(file.profiles) |->
                                           IF i \in hit THEN Damaged(file.profiles[i], how)
                                           ELSE file.profiles[i]]]
  /\ fileMtime' = now + 1
  /\ now' = now + 1
  /\ ret' = [op |-> "foreignWrite", name |-> Undefined, arg |-> EmptyObject, result |-> "ok",
             value |-> Undefined, after |-> Undefined, raised |-> "none"]
  /\ UNCHANGED <<cachedProfiles, lastModified, fsVars, managerVars>>

-----------------------------------------------------------------------------
(* SmartConnectionManager: its Maps and the circuit breaker                 *)

maxFailures == 3

circuitBreakerTimeout == 60000

\* The clock advances in steps of half a cooldown, so that a call falls
\* before nextAttempt, exactly on it, and after it.
ClockStep == circuitBreakerTimeout \div 2

\* Map.has, Map.set and Map.delete of a Map keyed by profile name.
Has(m, k) == k \in DOMAIN m

\* A Map.set that keeps the value a key already has.
PutIfAbsent(m, k, v) == [x \in (DOMAIN m) \cup {k} |-> IF x \in DOMAIN m THEN m[x] ELSE v]

Put(m, k, v) == [x \in (DOMAIN m) \cup {k} |-> IF x = k THEN v ELSE m[x]]

Delete(m, k) == [x \in (DOMAIN m) \ {k} |-> m[x]]

ErrorOf(message) == [t |-> "Error", v |-> message]

Disabled == ErrorOf(<<"temporarily disabled due to repeated failures">>)

\* An isCircuitBreakerOpen that counts the rejection as a failure and starts
\* the cooldown again.
isCircuitBreakerOpenCounting(breakers, profileName, t) ==
  IF ~Has(breakers, profileName)
  THEN [open |-> FALSE, breakers |-> breakers]
  ELSE IF breakers[profileName].state = "open"
  THEN IF Truthy(breakers[profileName].nextAttempt) /\ t > breakers[profileName].nextAttempt.v
       THEN [open |-> FALSE,
             breakers |-> [breakers EXCEPT ![profileName].state = "half-open"]]
       ELSE [open |-> TRUE,
             breakers |-> [breakers EXCEPT
                             ![profileName].failures = @ + 1,
                             ![profileName].nextAttempt = DateOf(t + circuitBreakerTimeout)]]
  ELSE [open |-> FALSE, breakers |-> breakers]

\* isCircuitBreakerOpen at time t: whether the call is rejected, and the
\* breakers it leaves (an open breaker past nextAttempt becomes half-open).
isCircuitBreakerOpen(breakers, profileName, t) ==
  IF ~Has(breakers, profileName)
  THEN [open |-> FALSE, breakers |-> breakers]
  ELSE IF breakers[profileName].state = "open"
  THEN IF Truthy(breakers[profileName].nextAttempt) /\ t > breakers[profileName].nextAttempt.v
       THEN [open |-> FALSE,
             breakers |-> [breakers EXCEPT ![profileName].state = "half-open"]]
       ELSE [open |-> TRUE, breakers |-> breakers]
  ELSE [open |-> FALSE, breakers |-> breakers]

\* A recordFailure that opens the breaker again after a failed probe without
\* a new cooldown.
recordFailureKeepingCooldown(breakers, profileName, t) ==
  LET breaker == IF Has(breakers, profileName) THEN breakers[profileName]
                 ELSE [failures |-> 0, state |-> "closed", lastFailure |-> Undefined,
                       nextAttempt |-> Undefined]
      counted == [breaker EXCEPT !.failures = @ + 1, !.lastFailure = DateOf(t)]
  IN  Put(breakers, profileName,
          IF counted.failures >= maxFailures
          THEN [counted EXCEPT !.state = "open",
                               !.nextAttempt = IF breaker.state = "half-open" THEN @
                                               ELSE DateOf(t + circuitBreakerTimeout)]
          ELSE counted)

\* A recordFailure that opens the breaker one failure late.
recordFailureLate(breakers, profileName, t) ==
  LET breaker == IF Has(breakers, profileName) THEN breakers[profileName]
                 ELSE [failures |-> 0, state |-> "closed", lastFailure |-> Undefined,
                       nextAttempt |-> Undefined]
      counted == [breaker EXCEPT !.failures = @ + 1, !.lastFailure = DateOf(t)]
  IN  Put(breakers, profileName,
          IF counted.failures > maxFailures
          THEN [counted EXCEPT !.state = "open",
                               !.nextAttempt = DateOf(t + circuitBreakerTimeout)]
          ELSE counted)

recordFailure(breakers, profileName, t) ==
  LET breaker == IF Has(breakers, profileName) THEN breakers[profileName]
                 ELSE [failures |-> 0, state |-> "closed", lastFailure |-> Undefined,
                       nextAttempt |-> Undefined]
      counted == [breaker EXCEPT !.failures = @ + 1, !.lastFailure = DateOf(t)]
  IN  Put(breakers, profileName,
          IF counted.failures >= maxFailures
          THEN [counted EXCEPT !.state = "open",
                               !.nextAttempt = DateOf(t + circuitBreakerTimeout)]
          ELSE counted)

\* A reset that deletes the record of every name.
resetEveryBreaker(breakers, profileName) == EmptyObject

\* A reset that keeps the record.
resetKeepingRecord(breakers, profileName) == breakers

resetCircuitBreaker(breakers, profileName) == Delete(breakers, profileName)

\* new MongoClient(uri, options) throws on a uri without a mongodb scheme.
ClientConstructs(profile) ==
  StartsWith(profile.uri.v, <<"mongodb://">>) \/ StartsWith(profile.uri.v, <<"mongodb+srv://">>)

InvalidScheme == ErrorOf(<<"Invalid scheme">>)

NetworkError == ErrorOf(<<"connect ECONNREFUSED">>)

-----------------------------------------------------------------------------
(* The calls in flight on the manager                                      *)

\* A call is a task; between two awaits it runs alone. tasks is the bag of
\* the calls that are suspended: which call is which does not matter, only
\* where each stands. pc is the await it is suspended on. probe marks a
\* connect that isCircuitBreakerOpen let through on a breaker that had
\* opened: open past nextAttempt, or half-open.
\* name is the profileName a call was given or the key a sweep stands on.
\* A getHealth that listConnections made carries in parent the number of
\* that call, which collects in results what its checks return.
\* found, closed and evicted record what a call that closes connections saw
\* and did: the pool when it started, the entries whose client it closed, and
\* the keys it deleted from the Map.
NewTask ==
  [op |-> "none", profile |-> EmptyObject, pc |-> "called", existing |-> 0,
   probe |-> FALSE, client |-> "none", startTime |-> 0, health |-> Undefined,
   name |-> Undefined, found |-> EmptyObject, closed |-> {}, evicted |-> {},
   parent |-> 0, results |-> EmptyObject]

NoCall ==
  [op |-> "new", result |-> [kind |-> "none", value |-> Undefined],
   attempt |-> "none", breakerWas |-> "none", client |-> "none",
   name |-> Undefined, closed |-> {}, evicted |-> {}]

Returned(value) == [kind |-> "returned", value |-> value]

Thrown(error) == [kind |-> "thrown", value |-> error]

ManagerNames == {NameA, NameB}

\* setInterval(callback, 60000) (line 337).
sweepInterval == 60000

\* The constructor starts the cleanup timer: its first firing is one
\* interval after construction (at time 0).
ManagerNew ==
  /\ cleanupInterval = [active |-> TRUE, due |-> sweepInterval]
  /\ connections = EmptyObject
  /\ circuitBreakers = EmptyObject
  /\ streak = [n \in ManagerNames |-> 0]
  /\ tasks = EmptyBag
  /\ settled = NoCall

BreakerState(breakers, profileName) ==
  IF Has(breakers, profileName) THEN breakers[profileName].state ELSE "none"

Failures(breakers, profileName) ==
  IF Has(breakers, profileName) THEN breakers[profileName].failures ELSE 0

\* The calls suspended on the await pc.
Suspended(pc) == {task \in BagToSet(tasks) : task.pc = pc}

\* The calls in flight but for one that now runs.
Others(task) == tasks (-) SetToBag({task})

\* The pooled entries are objects: a call that awaits a ping holds the entry
\* it read, which the Map may no longer hold when the ping resolves.
EntryIds == 1..(MaxTasks + 6)

\* The entries some call or Map still refers to.
UsedIds ==
  {connections[n].id : n \in DOMAIN connections}
    \cup UNION {{task.existing} \cup task.closed
                  \cup {task.found[n].id : n \in DOMAIN task.found} :
                task \in BagToSet(tasks)}
    \cup settled.closed

FreshId == CHOOSE i \in EntryIds : i \notin UsedIds /\ \A j \in 1..(i - 1) : j \in UsedIds

\* The call suspends on the await task.pc.
Suspend(others, task) ==
  /\ tasks' = others (+) SetToBag({task})
  /\ UNCHANGED settled

\* The call settles: its promise resolves or rejects.
Settle(others, task, result, attempt, was) ==
  /\ tasks' = others
  /\ settled' = [op |-> task.op, result |-> result, attempt |-> attempt,
                 breakerWas |-> was, client |-> task.client, name |-> task.name,
                 closed |-> task.closed, evicted |-> task.evicted]

\* A catch of connect that also drops the pooled entry of the name.
AttemptFailsEvicting(others, task, breakers, error) ==
  /\ circuitBreakers' = recordFailure(breakers, task.profile.name, now)
  /\ streak' = [streak EXCEPT ![task.profile.name] = @ + 1]
  /\ Settle(others, task, Thrown(error), "failed",
            BreakerState(breakers, task.profile.name))
  /\ connections' = Delete(connections, task.profile.name)

\* The catch of connect: recordFailure, then the error is thrown again.
AttemptFails(others, task, breakers, error) ==
  /\ circuitBreakers' = recordFailure(breakers, task.profile.name, now)
  /\ streak' = [streak EXCEPT ![task.profile.name] = @ + 1]
  /\ Settle(others, task, Thrown(error), "failed",
            BreakerState(breakers, task.profile.name))
  /\ UNCHANGED connections

\* connect from the breaker check on (lines 47-60), up to the first await
\* of createConnection.
FreshAttempt(others, task) ==
  LET check == isCircuitBreakerOpen(circuitBreakers, task.profile.name, now)
      admittedTask ==
        [task EXCEPT !.probe = BreakerState(circuitBreakers, task.profile.name)
                                 \in {"open", "half-open"}]
  IN  IF check.open
      THEN /\ Settle(others, task, Thrown(Disabled), "none", "open")
           /\ circuitBreakers' = check.breakers
           /\ UNCHANGED <<connections, streak>>
      ELSE IF ~ClientConstructs(task.profile)
      THEN AttemptFails(others, admittedTask, check.breakers, InvalidScheme)
      ELSE /\ Suspend(others, [admittedTask EXCEPT !.pc = "connecting"])
           /\ circuitBreakers' = check.breakers
           /\ UNCHANGED <<connections, streak>>

ConnectProfiles ==
  { [name |-> NameA, uri |-> UriPlain],
    [name |-> NameA, uri |-> Str(<<"h">>)] }

\* connect(profile) is called: it runs to its first await.
ConnectCall(profile) ==
  /\ BagCardinality(tasks) < MaxTasks
  /\ UNCHANGED <<now, storeVars, cleanupInterval>>
  /\ IF Has(connections, profile.name)
     THEN /\ Suspend(tasks, [NewTask EXCEPT !.op = "connect", !.profile = profile,
                                            !.pc = "ping",
                                            !.existing = connections[profile.name].id])
          /\ UNCHANGED <<connections, circuitBreakers, streak>>
     ELSE FreshAttempt(tasks, [NewTask EXCEPT !.op = "connect", !.profile = profile])

\* A reuse that leaves lastUsed as it was.
NotTouched(pool, id, t) == pool

\* existing.lastUsed = new Date(), on the entry the call read from the Map:
\* the Map shows it while it still holds that entry.
Touched(pool, id, t) ==
  [n \in DOMAIN pool |->
     IF pool[n].id = id THEN [pool[n] EXCEPT !.lastUsed = DateOf(t)] ELSE pool[n]]

\* The ping of isConnectionHealthy settles.
PingSettles(task, ok) ==
  /\ task.pc = "ping"
  /\ UNCHANGED <<now, storeVars, cleanupInterval>>
  /\ IF ok
     THEN /\ connections' = Touched(connections, task.existing, now)
          /\ Settle(Others(task), task, Returned(Undefined), "none",
                    BreakerState(circuitBreakers, task.profile.name))
          /\ UNCHANGED <<circuitBreakers, streak>>
     ELSE FreshAttempt(Others(task), task)

\* client.connect() of createConnection settles.
ClientConnectSettles(task, ok) ==
  /\ task.pc = "connecting"
  /\ UNCHANGED <<now, storeVars, cleanupInterval>>
  /\ IF ok
     THEN /\ Suspend(Others(task), [task EXCEPT !.pc = "createPing"])
          /\ UNCHANGED <<connections, circuitBreakers, streak>>
     ELSE AttemptFails(Others(task), task, circuitBreakers, NetworkError)

\* The ping of createConnection settles: the entry is pooled and the
\* breaker reset, or the failure recorded.
CreatePingSettles(task, ok) ==
  /\ task.pc = "createPing"
  /\ UNCHANGED <<now, storeVars, cleanupInterval>>
  /\ IF ok
     THEN /\ connections' = Put(connections, task.profile.name,
                                [id |-> FreshId, profile |-> task.profile,
                                 lastUsed |-> DateOf(now),
                                 healthCache |-> Undefined,
                                 healthCacheExpiry |-> Undefined])
          /\ circuitBreakers' = resetCircuitBreaker(circuitBreakers, task.profile.name)
          /\ streak' = [streak EXCEPT ![task.profile.name] = 0]
          /\ Settle(Others(task), task, Returned(Undefined), "succeeded",
                    BreakerState(circuitBreakers, task.profile.name))
     ELSE AttemptFails(Others(task), task, circuitBreakers, NetworkError)

\* Time passes.
Tick ==
  /\ now + ClockStep <= MaxTicks * ClockStep
  /\ now' = now + ClockStep
  /\ UNCHANGED <<storeVars, managerVars>>

Connect == \E profile \in ConnectProfiles : ConnectCall(profile)

PingExisting == \E task \in Suspended("ping"), ok \in BOOLEAN : PingSettles(task, ok)

ClientConnect ==
  \E task \in Suspended("connecting"), ok \in BOOLEAN : ClientConnectSettles(task, ok)

CreatePing ==
  \E task \in Suspended("createPing"), ok \in BOOLEAN : CreatePingSettles(task, ok)

-----------------------------------------------------------------------------
(* SmartConnectionManager.test                                             *)

\* x || y
OrElse(x, y) == IF Truthy(x) THEN x ELSE y

determineTopology(serverStatus) ==
  IF Truthy(Field(serverStatus, "repl"))
  THEN IF Truthy(OptField(Field(serverStatus, "repl"), "ismaster"))
          \/ Truthy(OptField(Field(serverStatus, "repl"), "isPrimary"))
       THEN Str(<<"ReplicaSetWithPrimary">>)
       ELSE Str(<<"ReplicaSetNoPrimary">>)
  ELSE IF Truthy(Field(serverStatus, "sharding"))
  THEN Str(<<"Sharded">>)
  ELSE Str(<<"Single">>)

\* The health object of a test that got both replies at time t.
HealthOf(task, serverStatus, buildInfo, t) ==
  Obj([isConnected |-> Bool(TRUE),
       latency |-> Num(t - task.startTime),
       serverVersion |-> Field(buildInfo, "version"),
       replicaSet |-> OptField(Field(serverStatus, "repl"), "setName"),
       topology |-> determineTopology(serverStatus),
       connectionCount |-> OrElse(OptField(Field(serverStatus, "connections"), "current"),
                                  Num(0)),
       testedAt |-> DateOf(t)])

\* A catch that throws the error again.
TestRethrow(task, error, t) == Thrown(error)

\* The catch of test at time t: the failure is returned, not thrown.
TestCatch(task, error, t) ==
  Returned(Obj([isConnected |-> Bool(FALSE),
                latency |-> Num(t - task.startTime),
                serverVersion |-> Str(<<"unknown">>),
                topology |-> Str(<<"Unknown">>),
                connectionCount |-> Num(0),
                testedAt |-> DateOf(t),
                error |-> Str(error.v)]))

TestProfiles ==
  { [name |-> NameA, uri |-> UriPlain],
    [name |-> NameB, uri |-> Str(<<"h">>)] }

Rejected == [t |-> "rejected", v |-> ErrorOf(<<"not authorized on admin">>)]

ServerStatusReplies ==
  { Rejected,
    Obj([repl |-> Obj([setName |-> Str(<<"rs0">>), ismaster |-> Bool(TRUE)]),
         connections |-> Obj([current |-> Num(5)])]),
    Obj([repl |-> Obj([setName |-> Str(<<"rs0">>), isPrimary |-> Bool(FALSE)])]),
    Obj([sharding |-> Obj(EmptyObject), connections |-> Obj([current |-> Num(0)])]),
    Obj(EmptyObject) }

BuildInfoReplies == { Rejected, Obj([version |-> Str(<<"7.0.0">>)]) }

healthCacheTTL == 30000

\* A Map that a call returns.
MapOf(m) == [t |-> "Map", v |-> m]

\* connection.healthCache = health and its expiry, on the entry getHealth
\* read from the Map: the Map shows them while it still holds that entry.
Cached(pool, id, health, t) ==
  [n \in DOMAIN pool |->
     IF pool[n].id = id
     THEN [pool[n] EXCEPT !.healthCache = health,
                          !.healthCacheExpiry = DateOf(t + healthCacheTTL)]
     ELSE pool[n]]

\* A listConnections that keeps only the entries of the checks that passed.
ListResumesOnSuccess(others, task, result) ==
  \A parent \in {p \in BagToSet(others) :
                   p.op = "listConnections" /\ p.parent = task.parent} :
    LET collected == IF /\ result.kind = "returned"
                        /\ OptField(result.value, "isConnected") = Bool(TRUE)
                     THEN Put(parent.results, task.name, result.value)
                     ELSE parent.results
        rest == others (-) SetToBag({parent})
    IN  IF \E sibling \in BagToSet(rest) : sibling.parent = task.parent
        THEN Suspend(rest, [parent EXCEPT !.results = collected])
        ELSE Settle(rest, [parent EXCEPT !.results = collected],
                    Returned(MapOf(collected)), "none", "none")

\* The callback of listConnections for a name goes on after its getHealth:
\* a health that is truthy is set in results. Promise.allSettled resolves,
\* and the call returns results, when the last callback has settled.
ListResumes(others, task, result) ==
  \A parent \in {p \in BagToSet(others) :
                   p.op = "listConnections" /\ p.parent = task.parent} :
    LET collected == IF result.kind = "returned" /\ Truthy(result.value)
                     THEN Put(parent.results, task.name, result.value)
                     ELSE parent.results
        rest == others (-) SetToBag({parent})
    IN  IF \E sibling \in BagToSet(rest) : sibling.parent = task.parent
        THEN Suspend(rest, [parent EXCEPT !.results = collected])
        ELSE Settle(rest, [parent EXCEPT !.results = collected],
                    Returned(MapOf(collected)), "none", "none")

\* getHealth settles, for the caller or for listConnections.
HealthReturns(others, task, result) ==
  IF task.parent = 0
  THEN Settle(others, task, result, "none", "none")
  ELSE ListResumes(others, task, result)

\* A test that, like getHealth, caches what it returns on the pooled entry
\* of the profile's name.
TestReturnsCaching(others, task, result) ==
  IF task.op = "test"
  THEN /\ Settle(others, task, result, "none", "none")
       /\ connections' =
            [n \in DOMAIN connections |->
               IF n = task.profile.name
               THEN [connections[n] EXCEPT !.healthCache = result.value,
                                          !.healthCacheExpiry = DateOf(now + healthCacheTTL)]
               ELSE connections[n]]
  ELSE IF result.kind = "thrown"
  THEN /\ HealthReturns(others, task, result)
       /\ UNCHANGED connections
  ELSE /\ connections' = Cached(connections, task.existing, result.value, now)
       /\ HealthReturns(others, task, result)

\* test settles. A call of test itself is over; a getHealth that awaited it
\* caches what test returned and returns it (lines 145-151).
TestReturns(others, task, result) ==
  IF task.op = "test"
  THEN /\ Settle(others, task, result, "none", "none")
       /\ UNCHANGED connections
  ELSE IF result.kind = "thrown"
  THEN /\ HealthReturns(others, task, result)
       /\ UNCHANGED connections
  ELSE /\ connections' = Cached(connections, task.existing, result.value, now)
       /\ HealthReturns(others, task, result)

\* test(profile) runs to its first await: startTime is read and the client
\* constructed.
TestStarts(profile) ==
  /\ UNCHANGED <<now, storeVars, cleanupInterval, circuitBreakers, streak>>
  /\ LET task == [NewTask EXCEPT !.op = "test", !.profile = profile, !.startTime = now]
     IN  IF ClientConstructs(profile)
         THEN /\ Suspend(tasks, [task EXCEPT !.pc = "testConnect", !.client = "constructed"])
              /\ UNCHANGED connections
         ELSE TestReturns(tasks, task, TestCatch(task, InvalidScheme, now))

\* client.connect() of test settles.
TestConnectSettles(task, ok) ==
  /\ task.pc = "testConnect"
  /\ UNCHANGED <<now, storeVars, cleanupInterval, circuitBreakers, streak>>
  /\ IF ok
     THEN /\ Suspend(Others(task), [task EXCEPT !.pc = "testQueries", !.client = "connected"])
          /\ UNCHANGED connections
     ELSE TestReturns(Others(task), [task EXCEPT !.client = "failed"],
                      TestCatch(task, NetworkError, now))

\* Promise.all of serverStatus and buildInfo settles.
TestQueriesSettle(task, serverStatus, buildInfo) ==
  /\ task.pc = "testQueries"
  /\ UNCHANGED <<now, storeVars, cleanupInterval, circuitBreakers, streak>>
  /\ IF serverStatus = Rejected \/ buildInfo = Rejected
     THEN TestReturns(Others(task), task, TestCatch(task, Rejected.v, now))
     ELSE /\ Suspend(Others(task),
                     [task EXCEPT !.pc = "testClose",
                                  !.health = HealthOf(task, serverStatus.v, buildInfo.v, now)])
          /\ UNCHANGED connections

\* client.close() of test settles.
TestCloseSettles(task, ok) ==
  /\ task.pc = "testClose"
  /\ UNCHANGED <<now, storeVars, cleanupInterval, circuitBreakers, streak>>
  /\ IF ok
     THEN TestReturns(Others(task), [task EXCEPT !.client = "closed"], Returned(task.health))
     ELSE TestReturns(Others(task), [task EXCEPT !.client = "closeFailed"],
                      TestCatch(task, NetworkError, now))

\* test(profile) is called while no other call is in flight.
TestCall(profile) ==
  /\ BagCardinality(tasks) < MaxTests
  /\ TestStarts(profile)

Test == \E profile \in TestProfiles : TestCall(profile)

\* test(profile) is called beside the calls in flight, one test at a time.
TestBeside ==
  /\ BagCardinality(tasks) < MaxTasks
  /\ \A task \in BagToSet(tasks) : task.op # "test"
  /\ \E profile \in TestProfiles : TestStarts(profile)

TestConnect == \E task \in Suspended("testConnect"), ok \in BOOLEAN : TestConnectSettles(task, ok)

TestQueries ==
  \E task \in Suspended("testQueries"),
     serverStatus \in ServerStatusReplies, buildInfo \in BuildInfoReplies :
    TestQueriesSettle(task, serverStatus, buildInfo)

TestClose == \E task \in Suspended("testClose"), ok \in BOOLEAN : TestCloseSettles(task, ok)

-----------------------------------------------------------------------------
(* The pool and the calls that fill it                                     *)

\* The calls in flight that a caller made: a sweep is the timer's, and a
\* getHealth with a parent is part of a listConnections.
Foreground ==
  {task \in BagToSet(tasks) :
     task.op # "sweep" /\ (task.parent = 0 \/ task.op = "listConnections")}

\* The entries a Map holds.
PoolIds(pool) == {pool[n].id : n \in DOMAIN pool}

\* The profiles of the pooled connections.
PoolProfiles ==
  { [name |-> NameA, uri |-> UriPlain],
    [name |-> NameB, uri |-> UriSrv] }

ConnectPooled ==
  /\ Cardinality(Foreground) < MaxCalls
  /\ \E profile \in PoolProfiles : ConnectCall(profile)

\* close() has been called on the client of entry id: a call that closes
\* connections is suspended on it, or the Map no longer holds the entry.
CloseCalled(id) ==
  \/ \A n \in DOMAIN connections : connections[n].id # id
  \/ \E task \in BagToSet(tasks) :
       \/ task.pc \in {"sweepClose", "close"} /\ task.existing = id
       \/ task.pc = "closeAll" /\ id \in PoolIds(task.found)

\* connect for either name, one call per name at a time.
ConnectEach ==
  \E profile \in PoolProfiles :
    /\ \A task \in BagToSet(tasks) : task.profile.name # profile.name
    /\ ConnectCall(profile)

\* The server is reachable: a ping on an open client succeeds, and so do
\* client.connect() and the ping of createConnection. A ping on a client
\* that close() was called on may fail.
PingReachable ==
  \E task \in Suspended("ping"), ok \in BOOLEAN :
    (ok \/ CloseCalled(task.existing)) /\ PingSettles(task, ok)

ClientConnects == \E task \in Suspended("connecting") : ClientConnectSettles(task, TRUE)

CreatePingSucceeds == \E task \in Suspended("createPing") : CreatePingSettles(task, TRUE)

\* connect for either name, as many calls at a time as may be in flight.
ConnectNames ==
  /\ BagCardinality(tasks) < MaxTasks
  /\ \E profile \in PoolProfiles : ConnectCall(profile)

\* The ping of a pooled connection succeeds.
PingSucceeds == \E task \in Suspended("ping") : PingSettles(task, TRUE)

\* The server is unreachable at most until the clock first moves, and
\* reachable ever after.
ServerDown == now = 0

Answers == {TRUE} \cup {ok \in {FALSE} : ServerDown}

\* connect for NameA with a profile the driver accepts, called again and
\* again.
ConnectAgain ==
  /\ BagCardinality(tasks) < MaxTasks
  /\ ConnectCall([name |-> NameA, uri |-> UriPlain])

PingAnswers == \E task \in Suspended("ping"), ok \in Answers : PingSettles(task, ok)

ClientConnectAnswers ==
  \E task \in Suspended("connecting"), ok \in Answers : ClientConnectSettles(task, ok)

CreatePingAnswers ==
  \E task \in Suspended("createPing"), ok \in Answers : CreatePingSettles(task, ok)

\* connect for a name the pool does not hold.
ConnectUnpooled ==
  /\ Cardinality(Foreground) < MaxCalls
  /\ \E profile \in PoolProfiles :
       ~Has(connections, profile.name) /\ ConnectCall(profile)

-----------------------------------------------------------------------------
(* getHealth and listConnections                                           *)

\* A cache that still counts at the time it expires.
CacheValidAtExpiry(connection, t) ==
  /\ Truthy(connection.healthCache)
  /\ Truthy(connection.healthCacheExpiry)
  /\ t <= connection.healthCacheExpiry.v

\* The test of lines 136-140 at time t.
CacheValid(connection, t) ==
  /\ Truthy(connection.healthCache)
  /\ Truthy(connection.healthCacheExpiry)
  /\ t < connection.healthCacheExpiry.v

\* getHealth for the entry it read, from the cache test on: it has returned
\* by its first await, or is suspended in test.
HealthStart(connection, t) ==
  IF CacheValid(connection, t)
  THEN [kind |-> "cached", health |-> connection.healthCache]
  ELSE IF ClientConstructs(connection.profile)
  THEN [kind |-> "test", health |-> Undefined]
  ELSE [kind |-> "caught",
        health |-> TestCatch([startTime |-> t], InvalidScheme, t).value]

\* The getHealth task of a call for name that found connection at time t.
HealthTask(name, parent, connection, t) ==
  [NewTask EXCEPT !.op = "getHealth", !.name = name, !.parent = parent,
                  !.existing = connection.id, !.profile = connection.profile,
                  !.startTime = t]

\* getHealth(profileName) is called.
GetHealthCall(profileName) ==
  /\ Cardinality(Foreground) < MaxCalls
  /\ BagCardinality(tasks) < MaxTasks
  /\ UNCHANGED <<now, storeVars, cleanupInterval, circuitBreakers, streak>>
  /\ IF ~Has(connections, profileName)
     THEN /\ Settle(tasks, [NewTask EXCEPT !.op = "getHealth", !.name = profileName],
                    Returned(Null), "none", "none")
          /\ UNCHANGED connections
     ELSE LET connection == connections[profileName]
              task == HealthTask(profileName, 0, connection, now)
              start == HealthStart(connection, now)
          IN  CASE start.kind = "cached" ->
                     /\ Settle(tasks, task, Returned(start.health), "none", "none")
                     /\ UNCHANGED connections
                [] start.kind = "test" ->
                     /\ Suspend(tasks, [task EXCEPT !.pc = "testConnect",
                                                    !.client = "constructed"])
                     /\ UNCHANGED connections
                [] start.kind = "caught" ->
                     TestReturns(tasks, task, Returned(start.health))

\* The number of a listConnections call.
FreshCall ==
  CHOOSE k \in 1..(MaxTasks + 1) :
    /\ \A task \in BagToSet(tasks) : task.parent # k
    /\ \A j \in 1..(k - 1) : \E task \in BagToSet(tasks) : task.parent = j

\* listConnections() is called: the callback runs for every key of the Map,
\* each up to its first await, and the call awaits them all. Every key is
\* pooled when its getHealth reads it, so no getHealth returns null here.
ListCall ==
  /\ Cardinality(Foreground) < MaxCalls
  /\ BagCardinality(tasks) + Cardinality(DOMAIN connections) < MaxTasks + 2
  /\ UNCHANGED <<now, storeVars, cleanupInterval, circuitBreakers, streak>>
  /\ LET start == [n \in DOMAIN connections |-> HealthStart(connections[n], now)]
         awaited == {n \in DOMAIN connections : start[n].kind = "test"}
         results == [n \in DOMAIN connections \ awaited |-> start[n].health]
         call == [NewTask EXCEPT !.op = "listConnections", !.pc = "allSettled",
                                 !.parent = FreshCall, !.results = results,
                                 !.found = connections]
         checks == {[HealthTask(n, FreshCall, connections[n], now)
                       EXCEPT !.pc = "testConnect", !.client = "constructed"] :
                    n \in awaited}
     IN  /\ connections' =
              [n \in DOMAIN connections |->
                 IF start[n].kind = "caught"
                 THEN Cached(connections, connections[n].id, start[n].health, now)[n]
                 ELSE connections[n]]
         /\ IF awaited = {}
            THEN Settle(tasks, call, Returned(MapOf(results)), "none", "none")
            ELSE Suspend(tasks (+) SetToBag(checks), call)

GetHealth == \E profileName \in ManagerNames : GetHealthCall(profileName)

\* The server of the pooled profiles is a replica set member: a test that
\* has connected to it gets both answers and closes its client. A test
\* fails when it cannot connect.
PoolQueries ==
  \E task \in Suspended("testQueries") :
    TestQueriesSettle(task,
                      Obj([repl |-> Obj([setName |-> Str(<<"rs0">>),
                                         ismaster |-> Bool(TRUE)]),
                           connections |-> Obj([current |-> Num(5)])]),
                      Obj([version |-> Str(<<"7.0.0">>)]))

TestCloses == \E task \in Suspended("testClose") : TestCloseSettles(task, TRUE)

-----------------------------------------------------------------------------
(* The idle reaper (startCleanupTimer)                                     *)

maxIdleTime == 300000

\* An idle test that also takes an entry idle for exactly maxIdleTime.
IsIdleFromTheLimit(connection, t) == t - connection.lastUsed.v >= maxIdleTime

\* idleTime > maxIdleTime, for the time t the sweep read when it started.
IsIdle(connection, t) == t - connection.lastUsed.v > maxIdleTime

\* closeConnection: client.close() is awaited and its error only logged, so
\* the caller goes on whether the close succeeded or not.
Closed(task) == [task EXCEPT !.closed = @ \cup {task.existing}]

\* The for loop of the sweep over the live Map, from where it stands to its
\* next await or its end. An entry set while the sweep is suspended is not
\* idle at the time the sweep read, so the loop stops only on the entries it
\* finds idle; the Map is a function here, and the order in which idle
\* entries are met is left open.
SweepRuns(others, task, pool) ==
  /\ connections' = pool
  /\ LET idle == {n \in DOMAIN pool : IsIdle(pool[n], task.startTime)}
     IN  IF idle = {}
         THEN Settle(others, task, Returned(Undefined), "none", "none")
         ELSE \E n \in idle :
                Suspend(others, [task EXCEPT !.pc = "sweepClose", !.name = n,
                                             !.existing = pool[n].id,
                                             !.profile = pool[n].profile])

\* The timer fires: the callback reads the time and runs to its first await.
\* A close settles well within the interval, so a firing finds no earlier
\* sweep suspended; calls that were made earlier in the minute may be.
SweepFires ==
  /\ cleanupInterval.active
  /\ now = cleanupInterval.due
  /\ Suspended("sweepClose") = {}
  /\ cleanupInterval' = [cleanupInterval EXCEPT !.due = @ + sweepInterval]
  /\ UNCHANGED <<now, storeVars, circuitBreakers, streak>>
  /\ SweepRuns(tasks, [NewTask EXCEPT !.op = "sweep", !.startTime = now,
                                      !.found = connections],
               connections)

\* closeConnection of the sweep settles: the name is deleted from the Map
\* and the loop goes on.
SweepCloseSettles(task, ok) ==
  /\ task.pc = "sweepClose"
  /\ UNCHANGED <<now, storeVars, cleanupInterval, circuitBreakers, streak>>
  /\ SweepRuns(Others(task), [Closed(task) EXCEPT !.evicted = @ \cup {task.name}],
               Delete(connections, task.name))

SweepClose == \E task \in Suspended("sweepClose"), ok \in BOOLEAN : SweepCloseSettles(task, ok)

\* A minute passes; a timer that is due fires before time moves on. The
\* driver's timeouts (buildMongoOptions: 5 s to select a server, 10 s to
\* connect) settle every await well within the minute, so no call is in
\* flight from one minute to the next.
Minute ==
  /\ now + sweepInterval <= MaxSweeps * sweepInterval
  /\ tasks = EmptyBag
  /\ ~(cleanupInterval.active /\ now >= cleanupInterval.due)
  /\ now' = now + sweepInterval
  /\ UNCHANGED <<storeVars, managerVars>>

-----------------------------------------------------------------------------
(* disconnect and cleanup                                                  *)

\* A disconnect(name) that closes the client and leaves the Map as it is.
KeptAfterClose(pool, name) == pool

\* this.connections.delete(profileName), after the close was awaited.
DeletedAfterClose(pool, name) == Delete(pool, name)

\* A clearInterval that leaves the timer running.
TimerKept(timer) == timer

\* clearInterval(this.cleanupInterval).
TimerCleared(timer) == [timer EXCEPT !.active = FALSE]

\* disconnect() up to its await: closeConnection is called on every value of
\* the Map, and Promise.allSettled awaited. found is the array of values.
DisconnectAllRuns(task) ==
  /\ Suspend(tasks, [task EXCEPT !.pc = "closeAll", !.found = connections])
  /\ UNCHANGED connections

\* disconnect(profileName) is called. An empty string is falsy and takes
\* the branch of no name (line 67); the names of profiles are not empty.
DisconnectCall(profileName) ==
  /\ BagCardinality(tasks) < MaxTasks
  /\ UNCHANGED <<now, storeVars, cleanupInterval, circuitBreakers, streak>>
  /\ LET task == [NewTask EXCEPT !.op = "disconnect", !.name = profileName]
     IN  IF ~Truthy(profileName)
         THEN DisconnectAllRuns(task)
         ELSE IF Has(connections, profileName)
         THEN /\ Suspend(tasks, [task EXCEPT !.pc = "close",
                                             !.existing = connections[profileName].id,
                                             !.profile = connections[profileName].profile])
              /\ UNCHANGED connections
         ELSE /\ Settle(tasks, task, Returned(Undefined), "none", "none")
              /\ UNCHANGED connections

\* cleanup() is called: the timer is cleared and disconnect() awaited.
CleanupCall ==
  /\ BagCardinality(tasks) < MaxTasks
  /\ cleanupInterval' = TimerCleared(cleanupInterval)
  /\ UNCHANGED <<now, storeVars, circuitBreakers, streak>>
  /\ DisconnectAllRuns([NewTask EXCEPT !.op = "cleanup"])

\* closeConnection of disconnect(name) settles; a close that failed is
\* logged. Then the name is deleted from the Map.
CloseSettles(task, ok) ==
  /\ task.pc = "close"
  /\ UNCHANGED <<now, storeVars, cleanupInterval, circuitBreakers, streak>>
  /\ connections' = DeletedAfterClose(connections, task.name)
  /\ Settle(Others(task),
            [Closed(task) EXCEPT !.client = IF ok THEN "closed" ELSE "closeFailed",
                                 !.evicted = {task.name}],
            Returned(Undefined), "none", "none")

\* Promise.allSettled of disconnect() resolves, failed being the entries
\* whose close failed. Then the Map is cleared.
CloseAllSettles(task, failed) ==
  /\ task.pc = "closeAll"
  /\ UNCHANGED <<now, storeVars, cleanupInterval, circuitBreakers, streak>>
  /\ connections' = EmptyObject
  /\ Settle(Others(task),
            [task EXCEPT !.closed = PoolIds(task.found),
                         !.client = IF failed = {} THEN "closed" ELSE "closeFailed",
                         !.evicted = DOMAIN connections],
            Returned(Undefined), "none", "none")

\* The calls of op that are in flight.
InFlight(ops) == {task \in BagToSet(tasks) : task.op \in ops}

Disconnect ==
  /\ Cardinality(InFlight({"disconnect", "cleanup"})) < MaxCalls
  /\ \E profileName \in ManagerNames \cup {Undefined} : DisconnectCall(profileName)

Cleanup ==
  /\ Cardinality(InFlight({"disconnect", "cleanup"})) < MaxCalls
  /\ CleanupCall

Close == \E task \in Suspended("close"), ok \in BOOLEAN : CloseSettles(task, ok)

CloseAll ==
  \E task \in Suspended("closeAll") :
    \E failed \in SUBSET PoolIds(task.found) : CloseAllSettles(task, failed)

ConnectAny ==
  /\ Cardinality(InFlight({"connect"})) < MaxCalls
  /\ \E profile \in PoolProfiles : ConnectCall(profile)

\* Time passes, but not past a firing of the timer that is due.
TimerTick ==
  /\ ~(cleanupInterval.active /\ now >= cleanupInterval.due)
  /\ Tick

-----------------------------------------------------------------------------
(* Specifications                                                          *)

\* saveProfiles seen one file system call at a time. The text of a container
\* is cut in units, each carrying the save that produced it and that text's
\* length; a file is an inode, and the two paths name inodes.
MaxSavers == 2

Savers == 1..MaxSavers

TextLengths == {1, 2}

Inodes == 1..(MaxSavers + 1)

NoInode == 0

Truncated == <<>>

\* JSON.stringify(newStorage, null, 2) of the save w, len units long.
Text(w, len) == [i \in 1..len |-> <<w, len>>]

\* JSON.parse accepts exactly the text one save produced.
IsWhole(content) == \E w \in Savers, len \in TextLengths : content = Text(w, len)

\* write(fd, text) at position 0 of a file opened with "w": what the file held
\* beyond the text stays.
WrittenOver(content, text) ==
  [i \in 1..(IF Len(content) > Len(text) THEN Len(content) ELSE Len(text)) |->
     IF i <= Len(text) THEN text[i] ELSE content[i]]

Referenced(d, s) == {d.target, d.temp} \cup {s[w].fd : w \in Savers}

FreeInode(d, s) == CHOOSE i \in Inodes : i \notin Referenced(d, s) /\ \A j \in Inodes : j < i => j \in Referenced(d, s)

\* An inode no path names and no descriptor holds is gone.
Collected(content, d, s) == [i \in Inodes |-> IF i \in Referenced(d, s) THEN content[i] ELSE Truncated]

Idle == [pc |-> "idle", len |-> 0, fd |-> NoInode, result |-> "none"]

FsNew ==
  /\ paths = [target |-> NoInode, temp |-> NoInode, by |-> <<0, 0>>]
  /\ inodes = [i \in Inodes |-> Truncated]
  /\ savers = [w \in Savers |-> Idle]

StoreNew ==
  /\ FsNew
  /\ file = Absent
  /\ fileMtime = 0
  /\ cachedProfiles = <<>>
  /\ lastModified = 0
  /\ ret = [op |-> "new", name |-> Undefined, arg |-> EmptyObject, result |-> "ok",
            value |-> Undefined, after |-> Undefined, raised |-> "none"]

StoreInit == StoreNew /\ ManagerNew /\ now = 1

StoreNext ==
  \/ List
  \/ Get
  \/ Add
  \/ Remove
  \/ Update
  \/ SetDefault
  \/ GetDefault

SpecStore == StoreInit /\ [][StoreNext]_vars

\* A store that is written and exported, and the stores that import what it
\* exported.
ExchangeNext ==
  \/ Add
  \/ Remove
  \/ Update
  \/ SetDefault
  \/ Export
  \/ ImportFresh

SpecStoreExchange == StoreInit /\ [][ExchangeNext]_vars

\* A store that is filled by add and import, emptied by remove, and read.
ImportNext ==
  \/ Add
  \/ Remove
  \/ List
  \/ Import

SpecStoreImport == StoreInit /\ [][ImportNext]_vars

\* A store that is filled by add and whose profiles are updated.
UpdateNext ==
  \/ Add
  \/ List
  \/ UpdateMerging

SpecStoreUpdate == StoreInit /\ [][UpdateNext]_vars

\* A store some of whose calls meet a file system call that fails.
FaultNext ==
  \/ AddBeforeFault
  \/ ListBeforeFault
  \/ ReadUnderFault
  \/ WriteUnderFault
  \/ ImportUnderFault

SpecStoreFaults == StoreInit /\ [][FaultNext]_vars

\* A store up to the first mutation whose write fails.
WriteFaultNext ==
  \/ AddBeforeFault
  \/ SetDefaultBeforeFault
  \/ ListBeforeFault
  \/ WriteFails

SpecStoreWriteFault == StoreInit /\ [][WriteFaultNext]_vars

\* A store whose file is also written from outside.
ForeignNext ==
  \/ Add
  \/ Remove
  \/ List
  \/ Get
  \/ ForeignWrite

SpecStoreForeign == StoreInit /\ [][ForeignNext]_vars

ManagerInit == StoreNew /\ ManagerNew /\ now = 0

ConnectNext ==
  \/ Connect
  \/ PingExisting
  \/ ClientConnect
  \/ CreatePing
  \/ Tick

\* connect calls interleaving at their awaits.
SpecConnect == ManagerInit /\ [][ConnectNext]_vars

TestNext ==
  \/ Test
  \/ TestConnect
  \/ TestQueries
  \/ TestClose
  \/ Tick

\* connect calls for two names, against a server that may refuse.
BreakerNext ==
  \/ ConnectEach
  \/ PingExisting
  \/ ClientConnect
  \/ CreatePingSucceeds
  \/ Tick

SpecBreakers == ManagerInit /\ [][BreakerNext]_vars

\* tests beside the connects that fill the pool and open the breaker.
TestBesideNext ==
  \/ Connect
  \/ PingExisting
  \/ ClientConnects
  \/ CreatePingSucceeds
  \/ TestBeside
  \/ TestConnect
  \/ PoolQueries
  \/ TestCloses
  \/ Tick

SpecTestBeside == ManagerInit /\ [][TestBesideNext]_vars

\* test calls interleaving at their awaits.
\* connect calls for two names racing for the pool: a pooled connection
\* answers its ping, opening one may fail.
PoolNext ==
  \/ ConnectNames
  \/ PingSucceeds
  \/ ClientConnect
  \/ CreatePing
  \/ Tick

SpecPool == ManagerInit /\ [][PoolNext]_vars

\* connect calls for one name while the server is down and after it has come
\* back for good: time keeps advancing, every await settles, and connect
\* keeps being called.
RecoveryNext ==
  \/ ConnectAgain
  \/ PingAnswers
  \/ ClientConnectAnswers
  \/ CreatePingAnswers
  \/ Tick

SpecRecovery ==
  /\ ManagerInit
  /\ [][RecoveryNext]_vars
  /\ WF_vars(Tick)
  /\ WF_vars(ConnectAgain)
  /\ WF_vars(PingAnswers)
  /\ WF_vars(ClientConnectAnswers)
  /\ WF_vars(CreatePingAnswers)

SpecTest == ManagerInit /\ [][TestNext]_vars

HealthNext ==
  \/ ConnectUnpooled
  \/ ClientConnects
  \/ CreatePingSucceeds
  \/ GetHealth
  \/ ListCall
  \/ TestConnect
  \/ PoolQueries
  \/ TestCloses
  \/ Tick

\* getHealth and listConnections on a pool that connect calls fill.
SpecHealth == ManagerInit /\ [][HealthNext]_vars

ShutdownNext ==
  \/ ConnectAny
  \/ PingReachable
  \/ ClientConnects
  \/ CreatePingSucceeds
  \/ Disconnect
  \/ Close
  \/ CloseAll
  \/ Cleanup
  \/ SweepFires
  \/ TimerTick

\* disconnect and cleanup among connect calls and the firings of the timer,
\* over a time too short for a sweep to find an idle connection.
SpecShutdown == ManagerInit /\ [][ShutdownNext]_vars

ReaperNext ==
  \/ ConnectPooled
  \/ PingReachable
  \/ ClientConnects
  \/ CreatePingSucceeds
  \/ SweepFires
  \/ SweepClose
  \/ Minute

\* connect calls and the sweeps of the reaper, minute by minute.
SpecReaper == ManagerInit /\ [][ReaperNext]_vars

-----------------------------------------------------------------------------
(* Properties of the store                                                 *)

\* What list() returns in this state, through the cache or from disk.
Listed == list(Store).value

\* The persisted entries, read from disk and decrypted.
OnDisk == IF file = Absent THEN <<>> ELSE DecryptAll(file.profiles, <<>>)

DefaultsIn(profiles) ==
  {NameOf(profiles[i]) : i \in {j \in 1..Len(profiles) : IsDefault(profiles[j])}}

\* C1: in every reachable state of the store at most one stored profile has
\* metadata.isDefault = true.
C1_AtMostOneDefault ==
  \A listed \in {Listed}, disk \in {OnDisk} :
    /\ Cardinality({i \in 1..Len(listed) : IsDefault(listed[i])}) <= 1
    /\ Cardinality({i \in 1..Len(disk) : IsDefault(disk[i])}) <= 1

SameNameUriDatabase(got, profile) ==
  /\ got.t = "object"
  /\ Field(got.v, "name") = Field(profile, "name")
  /\ Field(got.v, "uri") = Field(profile, "uri")
  /\ Field(got.v, "database") = Field(profile, "database")

\* C6: after add(P) completes for a valid P whose name was not in the store,
\* get(P.name) returns a profile with P's name, uri and database, and so does
\* the read that goes through the encrypted file.
C6_AddThenGet ==
  (ret.op = "add" /\ ret.result = "ok") =>
    \A got \in {get(Store, ret.name).value}, read \in {MapGet(OnDisk, ret.name)} :
      /\ SameNameUriDatabase(got, ret.arg)
      /\ SameNameUriDatabase(read, ret.arg)

\* C6 witness: an add has completed, its profile names a database, and the
\* next get reads the file, not the cache.
C6_Witness ==
  /\ ret.op = "add" /\ ret.result = "ok"
  /\ Field(ret.arg, "database") = Db
  /\ ~CacheIsFresh(Store)
  /\ Len(Listed) > 1

SameValue(x, y) == JsonLeaf(x) = JsonLeaf(y)

\* Two profiles agree on every field but metadata.isDefault.
SameButIsDefault(p, q) ==
  /\ \A k \in {"name", "uri", "database", "alias"} : Field(p, k) = Field(q, k)
  /\ \A k \in {"createdAt", "lastUsed", "lastTested", "environment", "description"} :
       SameValue(OptField(Field(p, "metadata"), k), OptField(Field(q, "metadata"), k))

\* C8: a setDefault(B) that succeeds leaves B with isDefault = true and no
\* other profile default, getDefault() returns B, and every other field of
\* every profile is as before (a timestamp compared as an instant); when it
\* follows a successful setDefault(A), A # B, A has isDefault = false.
C8_SetDefaultTwice ==
  [][(ret'.op = "setDefault" /\ ret'.value = Bool(TRUE)) =>
       \A b \in {ret'.name}, before \in {Listed}, after \in {Listed'},
          diskAfter \in {OnDisk'}, default \in {getDefault(Store).value'} :
         /\ DefaultsIn(after) = {b}
         /\ DefaultsIn(diskAfter) = {b}
         /\ default.t = "object"
         /\ NameOf(default.v) = b
         /\ IsDefault(default.v)
         /\ Len(after) = Len(before)
         /\ Len(diskAfter) = Len(before)
         /\ \A i \in 1..Len(before) : SameButIsDefault(before[i], after[i])
         /\ \A i \in 1..Len(before) : SameButIsDefault(before[i], diskAfter[i])
         /\ (ret'.after # Undefined /\ ret'.after # b) =>
              OptField(Field(MapGet(after, ret'.after).v, "metadata"), "isDefault")
                = Bool(FALSE)]_vars

\* C8 witness: setDefault(B) has succeeded right after setDefault(A), A # B,
\* in a store of three profiles.
C8_Witness ==
  /\ ret.op = "setDefault" /\ ret.value = Bool(TRUE)
  /\ ret.after # Undefined /\ ret.after # ret.name
  /\ Len(Listed) = 3

-----------------------------------------------------------------------------
(* The circuit breaker of connect                                          *)

\* C2: a failed fresh attempt of connect adds exactly one to the failure
\* count of its name; while fewer than three have failed since the last
\* success the breaker is closed, and at the third it is open with
\* nextAttempt 60 seconds after the time of the failure.
C2_FailuresOpenTheBreaker ==
  [][\A n \in ManagerNames :
       (streak'[n] = streak[n] + 1) =>
         /\ Failures(circuitBreakers', n) = Failures(circuitBreakers, n) + 1
         /\ (streak'[n] < 3) => BreakerState(circuitBreakers', n) = "closed"
         /\ (streak'[n] = 3) =>
              /\ BreakerState(circuitBreakers', n) = "open"
              /\ circuitBreakers'[n].nextAttempt = DateOf(now + 60000)]_vars

\* C2 witness: the third failure in a row has just opened the breaker.
C2_Witness ==
  /\ settled.attempt = "failed"
  /\ streak[NameA] = 3
  /\ BreakerState(circuitBreakers, NameA) = "open"

\* C3: a connect called while the breaker of its name is open and
\* nextAttempt has not passed is rejected in that very step with the
\* 'temporarily disabled' error: it suspends on no network operation,
\* whatever the pool holds for the name.
C3_OpenBreakerRejects ==
  [][\A profile \in ConnectProfiles :
       ( /\ ConnectCall(profile)
         /\ BreakerState(circuitBreakers, profile.name) = "open"
         /\ now <= circuitBreakers[profile.name].nextAttempt.v ) =>
         /\ tasks' = tasks
         /\ settled'.result = Thrown(Disabled)]_vars

\* C4: of the connects let through for one name on a breaker that had
\* opened (past nextAttempt, or half-open), at most one is in flight.
C4_OneAttemptWhenHalfOpen ==
  \A n \in ManagerNames :
    BagCardinality([task \in {u \in BagToSet(tasks) :
                                /\ u.pc \in {"connecting", "createPing"}
                                /\ u.profile.name = n
                                /\ u.probe} |-> tasks[task]]) <= 1

\* C5: a fresh attempt that succeeds, whatever the breaker state, leaves no
\* breaker record for its name; and a breaker that opens from closed or from
\* no record does so at the third failure since the last success.
C5_SuccessRemovesTheRecord ==
  [][\A n \in ManagerNames :
       /\ (\E task \in Suspended("createPing") :
              /\ task.profile.name = n
              /\ CreatePingSettles(task, TRUE)) =>
            /\ ~Has(circuitBreakers', n)
            /\ Failures(circuitBreakers', n) = 0
       /\ ( /\ BreakerState(circuitBreakers', n) = "open"
            /\ BreakerState(circuitBreakers, n) \in {"none", "closed"} ) =>
            streak'[n] = 3]_vars

\* C5 witness: the attempt let through on a half-open breaker has succeeded.
C5_Witness ==
  /\ settled.attempt = "succeeded"
  /\ settled.breakerWas = "half-open"
  /\ ~Has(circuitBreakers, NameA)

-----------------------------------------------------------------------------
(* test                                                                    *)

\* C9: test never throws: it returns, and when the construction of the
\* client, its connect or a query failed, what it returns has
\* isConnected = false, an error string, a latency, topology 'Unknown'
\* and connectionCount 0.
C9_TestNeverThrows ==
  (settled.op = "test") =>
    /\ settled.result.kind = "returned"
    /\ (settled.client \in {"none", "failed", "connected"}) =>
         /\ settled.result.value.t = "object"
         /\ Field(settled.result.value.v, "isConnected") = Bool(FALSE)
         /\ Field(settled.result.value.v, "error").t = "string"
         /\ Field(settled.result.value.v, "latency").t = "number"
         /\ Field(settled.result.value.v, "latency").v >= 0
         /\ Field(settled.result.value.v, "topology") = Str(<<"Unknown">>)
         /\ Field(settled.result.value.v, "connectionCount") = Num(0)

\* C9 witness: a test whose client had connected has settled on a query
\* that failed, some time after it started.
C9_Witness ==
  /\ settled.op = "test"
  /\ settled.client = "connected"
  /\ Field(settled.result.value.v, "latency").v > 0

\* C10: a test that has returned has not left the client it connected open.
C10_TestClosesItsClient == (settled.op = "test") => settled.client # "connected"

-----------------------------------------------------------------------------
(* The pool                                                                *)

\* C11: when the ping of the pooled entry a connect found succeeds, the call
\* returns without starting a client: no call is left suspended for it, the
\* pool maps every name to the handle it mapped to, the breakers are as they
\* were, and the entry it found, where the pool holds it, has lastUsed = now.
C11_ReuseRefreshesLastUsed ==
  [][\A task \in Suspended("ping") :
       PingSettles(task, TRUE) =>
         /\ tasks' = Others(task)
         /\ settled'.result = Returned(Undefined)
         /\ circuitBreakers' = circuitBreakers
         /\ DOMAIN connections' = DOMAIN connections
         /\ \A n \in DOMAIN connections :
              /\ connections'[n].id = connections[n].id
              /\ connections'[n].profile = connections[n].profile
              /\ connections'[n].lastUsed =
                   IF connections[n].id = task.existing THEN DateOf(now)
                   ELSE connections[n].lastUsed]_vars

\* C11 witness: a connect has returned on the ping of a pooled entry, which
\* now carries a lastUsed later than the time it was pooled at.
C11_Witness ==
  /\ settled.op = "connect"
  /\ settled.attempt = "none"
  /\ settled.result = Returned(Undefined)
  /\ Has(connections, NameA)
  /\ connections[NameA].lastUsed = DateOf(now)
  /\ now > 0
  /\ tasks = EmptyBag

\* What holds when a sweep that started at time start on the pool found
\* completes. An entry found idle for more than maxIdleTime has had its
\* client closed and is out of the pool, unless a connect refreshed or
\* replaced the entry of its name while the sweep was suspended; a name whose
\* entry was found idle for maxIdleTime or less is still pooled and the
\* sweep did not delete it; and the pool holds no entry that idle.
SweepDone(found, start) ==
  /\ \A n \in DOMAIN found :
       IF start - found[n].lastUsed.v > 300000
       THEN \/ found[n].id \in settled'.closed /\ found[n].id \notin PoolIds(connections')
            \/ Has(connections', n) /\ connections'[n].lastUsed.v >= start
       ELSE n \notin settled'.evicted /\ Has(connections', n)
  /\ \A n \in DOMAIN connections' : start - connections'[n].lastUsed.v <= 300000

\* C12: when a sweep completes, every connection it found idle for more than
\* 5 minutes is closed and out of the pool and every connection it found idle
\* for 5 minutes or less is still pooled; a connect made after the sweep for
\* a name it evicted does not reuse an evicted handle, and opens a new client
\* when the pool has no entry for the name; the timer fires exactly when it
\* is due, every 60 s, and time does not pass a firing that is due.
C12_SweepEvictsTheIdle ==
  [][/\ (SweepFires /\ tasks' = tasks) => SweepDone(connections, now)
     /\ \A task \in Suspended("sweepClose") :
          (SweepCloseSettles(task, TRUE) /\ tasks' = Others(task)) =>
            SweepDone(task.found, task.startTime)
     /\ \A profile \in PoolProfiles :
          (/\ settled.op = "sweep" /\ profile.name \in settled.evicted
           /\ ConnectCall(profile)) =>
            IF Has(connections, profile.name)
            THEN connections[profile.name].id \notin settled.closed
            ELSE \E task \in Suspended("connecting")' :
                   task.profile = profile /\ task.existing = 0
     /\ cleanupInterval' # cleanupInterval =>
          /\ now = cleanupInterval.due
          /\ cleanupInterval'.due = cleanupInterval.due + 60000
     /\ cleanupInterval'.active => now' <= cleanupInterval'.due]_vars

\* C12 witness: a sweep has completed that evicted one connection, idle for
\* more than 5 minutes, and left the other, idle for exactly 5 minutes.
C12_Witness ==
  /\ settled.op = "sweep"
  /\ tasks = EmptyBag
  /\ settled.evicted = {NameA}
  /\ Has(connections, NameB) /\ ~Has(connections, NameA)
  /\ now - connections[NameB].lastUsed.v = 300000
  /\ now = cleanupInterval.due - 60000

\* C13: getHealth(name) returns null, and starts no test, when the pool has
\* no entry for name; when the entry holds a health cached less than 30 s
\* ago it returns that health and starts no test; otherwise it starts exactly
\* one test, against the pooled profile. When a getHealth that tested
\* returns, the entry it found holds what it returns, cached with an expiry
\* 30 s after the time of the return, and no other entry has changed.
C13_GetHealthCachesFor30s ==
  [][/\ \A name \in ManagerNames :
          GetHealthCall(name) =>
            IF ~Has(connections, name)
            THEN /\ settled'.op = "getHealth" /\ settled'.result = Returned(Null)
                 /\ tasks' = tasks /\ connections' = connections
            ELSE IF /\ connections[name].healthCache.t = "object"
                    /\ connections[name].healthCacheExpiry.t = "Date"
                    /\ now - (connections[name].healthCacheExpiry.v - 30000) < 30000
            THEN /\ settled'.op = "getHealth" /\ settled'.client = "none"
                 /\ settled'.result = Returned(connections[name].healthCache)
                 /\ tasks' = tasks /\ connections' = connections
            ELSE /\ connections' = connections
                 /\ \E task \in Suspended("testConnect")' :
                      /\ tasks' = tasks (+) SetToBag({task})
                      /\ task.op = "getHealth" /\ task.name = name
                      /\ task.profile = connections[name].profile
                      /\ task.client = "constructed" /\ task.startTime = now
     /\ \A task \in BagToSet(tasks) :
          (task.op = "getHealth" /\ task.parent = 0 /\ tasks' = Others(task)) =>
            /\ settled'.op = "getHealth" /\ settled'.client \in {"closed", "failed"}
            /\ settled'.result.kind = "returned"
            /\ settled'.result.value.t = "object"
            /\ DOMAIN connections' = DOMAIN connections
            /\ \A n \in DOMAIN connections :
                 IF connections[n].id = task.existing
                 THEN connections'[n] =
                        [connections[n] EXCEPT
                           !.healthCache = settled'.result.value,
                           !.healthCacheExpiry = DateOf(now + 30000)]
                 ELSE connections'[n] = connections[n]]_vars

\* C13 witness: a getHealth has just returned, without a test, the health
\* another getHealth cached earlier, one tick before that health expires.
C13_Witness ==
  /\ settled.op = "getHealth" /\ settled.client = "none"
  /\ Has(connections, NameA)
  /\ settled.result = Returned(connections[NameA].healthCache)
  /\ connections[NameA].healthCache.t = "object"
  /\ now > 0 /\ connections[NameA].healthCacheExpiry.v = now + ClockStep
  /\ tasks = EmptyBag

\* C14: listConnections() starts, within the call, a check for every pooled
\* name whose health is not cached, so the checks are in flight together.
\* Whatever the checks return, the call returns a Map that holds a health for
\* every name that was pooled when it was called; a check that fails leaves
\* in it a health that is not connected, and what other checks had put there
\* stays as it was.
C14_ListReturnsEveryPooledName ==
  [][/\ ListCall =>
          \A n \in DOMAIN connections :
            IF /\ connections[n].healthCache.t = "object"
               /\ now < connections[n].healthCacheExpiry.v
            THEN \/ /\ settled'.op = "listConnections" /\ tasks' = tasks
                    /\ settled'.result.value.v[n] = connections[n].healthCache
                 \/ \E call \in Suspended("allSettled")' :
                      /\ call \notin BagToSet(tasks)
                      /\ n \in DOMAIN call.results
                      /\ call.results[n] = connections[n].healthCache
            ELSE \E call \in Suspended("allSettled")',
                    check \in Suspended("testConnect")' :
                   /\ call \notin BagToSet(tasks)
                   /\ check \notin BagToSet(tasks)
                   /\ check.parent = call.parent /\ check.name = n
                   /\ check.profile = connections[n].profile
     /\ \A call \in Suspended("allSettled") :
          IF \A task \in BagToSet(tasks') : task.parent # call.parent
          THEN /\ settled'.op = "listConnections"
               /\ settled'.result.kind = "returned"
               /\ DOMAIN settled'.result.value.v = DOMAIN call.found
               /\ \A n \in DOMAIN call.found : settled'.result.value.v[n].t = "object"
               /\ \A n \in DOMAIN call.results :
                    settled'.result.value.v[n] = call.results[n]
          ELSE \A after \in {c \in Suspended("allSettled")' : c.parent = call.parent} :
                 \A n \in DOMAIN call.results :
                   n \in DOMAIN after.results /\ after.results[n] = call.results[n]]_vars

\* C14 witness: a listConnections has returned a Map with the health of a
\* check that passed and the health of a check that failed.
C14_Witness ==
  /\ settled.op = "listConnections"
  /\ settled.result.kind = "returned"
  /\ DOMAIN settled.result.value.v = {NameA, NameB}
  /\ Field(settled.result.value.v[NameA].v, "isConnected") = Bool(TRUE)
  /\ Field(settled.result.value.v[NameB].v, "isConnected") = Bool(FALSE)
  /\ DOMAIN connections = {NameA, NameB}

\* C15: disconnect(name) returns without throwing: at once, with the pool
\* as it was, when name is not pooled, and otherwise when the close it awaits
\* has settled, whether the close succeeded or failed, with no entry for
\* name in the pool and every other entry as it was. disconnect() returns
\* without throwing when its closes have settled, whichever of them failed,
\* and leaves the pool empty.
C15_DisconnectRemoves ==
  [][/\ \A name \in ManagerNames :
          (DisconnectCall(name) /\ ~Has(connections, name)) =>
            /\ settled'.op = "disconnect" /\ settled'.result = Returned(Undefined)
            /\ connections' = connections /\ tasks' = tasks
     /\ \A name \in ManagerNames \cup {Undefined} :
          (DisconnectCall(name) /\ (name = Undefined \/ Has(connections, name))) =>
            connections' = connections /\ settled' = settled
     /\ \A task \in Suspended("close"), ok \in BOOLEAN :
          CloseSettles(task, ok) =>
            /\ settled'.op = "disconnect" /\ settled'.result = Returned(Undefined)
            /\ tasks' = Others(task)
            /\ ~Has(connections', task.name)
            /\ DOMAIN connections' = DOMAIN connections \ {task.name}
            /\ \A n \in DOMAIN connections' : connections'[n] = connections[n]
     /\ \A task \in Suspended("closeAll") :
          \A failed \in SUBSET PoolIds(task.found) :
            (task.op = "disconnect" /\ CloseAllSettles(task, failed)) =>
              /\ settled'.op = "disconnect" /\ settled'.result = Returned(Undefined)
              /\ tasks' = Others(task)
              /\ connections' = EmptyObject]_vars

\* C15 witness: disconnect(name) has returned after a close that failed; the
\* name is out of the pool and the other name is still pooled.
C15_Witness ==
  /\ settled.op = "disconnect" /\ settled.name = NameA
  /\ settled.client = "closeFailed"
  /\ settled.result = Returned(Undefined)
  /\ ~Has(connections, NameA) /\ Has(connections, NameB)

\* C16: cleanup() clears the timer when it is called, and a cleared timer
\* stays cleared and never fires; when cleanup() returns, the pool is empty
\* and close has been called on every connection that was pooled when it was
\* called.
C16_CleanupStopsTheReaper ==
  [][/\ CleanupCall => ~cleanupInterval'.active
     /\ ~cleanupInterval.active => (cleanupInterval' = cleanupInterval /\ ~SweepFires)
     /\ \A task \in Suspended("closeAll") :
          \A failed \in SUBSET PoolIds(task.found) :
            (task.op = "cleanup" /\ CloseAllSettles(task, failed)) =>
              /\ settled'.op = "cleanup" /\ settled'.result = Returned(Undefined)
              /\ connections' = EmptyObject
              /\ PoolIds(task.found) \subseteq settled'.closed
              /\ ~cleanupInterval'.active]_vars

\* C16 witness: cleanup() has returned after closing two connections, and
\* the time at which the timer was due next has passed.
C16_Witness ==
  /\ settled.op = "cleanup"
  /\ Cardinality(settled.closed) = 2
  /\ connections = EmptyObject
  /\ ~cleanupInterval.active
  /\ now > cleanupInterval.due
  /\ tasks = EmptyBag

-----------------------------------------------------------------------------
(* The store: absent names, export and import, entries that do not decrypt  *)

\* C17: remove(name), update(name, fields) and setDefault(name) for a name
\* the store does not hold return false and write nothing: the file and its
\* modification time, the profiles list() returns and the profile
\* getDefault() returns are what they were.
C17_AbsentNameWritesNothing ==
  [][\A n \in StoreNames :
       (/\ ret'.op \in {"remove", "update", "setDefault"} /\ ret'.name = n
        /\ ~MapHas(Listed, n)) =>
         /\ ret'.result = "ok" /\ ret'.value = Bool(FALSE)
         /\ file' = file /\ fileMtime' = fileMtime
         /\ Listed' = Listed
         /\ getDefault(Store).value' = getDefault(Store).value]_vars

\* C17 witness: setDefault has returned false for a name the store does not
\* hold, in a store that holds a default profile.
C17_Witness ==
  /\ ret.op = "setDefault" /\ ret.value = Bool(FALSE)
  /\ ~MapHas(Listed, ret.name)
  /\ getDefault(Store).value.t = "object"

\* The names a Map holds.
NamesOf(m) == {NameOf(m[i]) : i \in 1..Len(m)}

\* C18: when the text export() returned is imported by a fresh, empty store
\* that uses the same secret, the new store lists exactly the names the
\* exporting store lists, each with the uri it has there, and import returns
\* the number of profiles.
C18_ExportImportRoundTrip ==
  [][ret'.op = "importFresh" =>
       /\ ret'.result = "ok"
       /\ NamesOf(Listed') = NamesOf(Listed)
       /\ \A name \in NamesOf(Listed) :
            OptField(MapGet(Listed', name), "uri") = OptField(MapGet(Listed, name), "uri")
       /\ ret'.value = Num(Len(Listed))
       /\ Len(Listed') = Len(Listed)]_vars

\* A fresh store has imported two profiles, a millisecond having passed
\* between its two saves.
C18_Witness ==
  /\ ret.op = "importFresh"
  /\ ret.value = Num(2)
  /\ Len(Listed) = 2
  /\ fileMtime > 1


\* The entries of a batch that decrypt and that validateProfile accepts.
Acceptable(entries) ==
  {i \in 1..Len(entries) :
     /\ decryptProfile(entries[i]).ok
     /\ validateProfile(decryptProfile(entries[i]).profile) = "ok"}

\* The entries to be added to a store that lists `before`: the acceptable
\* ones whose name is neither listed nor that of an earlier acceptable entry.
ToBeAdded(entries, before) ==
  {i \in Acceptable(entries) :
     /\ Field(entries[i], "name") \notin NamesOf(before)
     /\ \A j \in Acceptable(entries) :
          j < i => Field(entries[j], "name") # Field(entries[i], "name")}

\* C19: import(data) of a container returns normally; every profile the
\* store listed is still listed, unchanged; the names it lists besides are
\* those of the entries to be added, each with the uri and database its
\* entry decrypts to; and the count returned is the number of those entries.
C19_ImportSkipsAndAdds ==
  [][(ret'.op = "import" /\ ret'.arg.data.t = "json") =>
       \A entries \in {ret'.arg.data.v.profiles}, before \in {Listed}, after \in {Listed'} :
         /\ ret'.result = "ok"
         /\ \A i \in 1..Len(before) :
              /\ MapHas(after, NameOf(before[i]))
              /\ SameButIsDefault(MapGet(after, NameOf(before[i])).v, before[i])
              /\ IsDefault(MapGet(after, NameOf(before[i])).v) = IsDefault(before[i])
         /\ NamesOf(after) =
              NamesOf(before) \cup {Field(entries[i], "name") : i \in ToBeAdded(entries, before)}
         /\ \A i \in ToBeAdded(entries, before) :
              SameNameUriDatabase(MapGet(after, Field(entries[i], "name")),
                                  decryptProfile(entries[i]).profile)
         /\ ret'.value = Num(Cardinality(ToBeAdded(entries, before)))
         /\ Len(after) = Len(before) + Cardinality(ToBeAdded(entries, before))]_vars

\* An import has returned 2 from a batch of five entries: the store listed
\* one of the batch's names, one entry repeated a name of the batch, and two
\* entries were rejected by validateProfile.
C19_Witness ==
  /\ ret.op = "import"
  /\ ret.arg.data.t = "json"
  /\ Len(ret.arg.data.v.profiles) = 5
  /\ ret.value = Num(2)
  /\ Len(Listed) = 3
  /\ OptField(MapGet(Listed, NameC), "uri") = UriSrv


\* The entries of a file that decrypt.
Decryptable(entries) == {i \in 1..Len(entries) : decryptProfile(entries[i]).ok}

\* C20: whenever the file holds entries of which some do not decrypt, list()
\* returns normally with exactly the entries that decrypt, get() of the name
\* of each of them returns it, and get() of a name only entries that do not
\* decrypt carry returns null.
C20_UndecryptableEntriesOmitted ==
  (file # Absent /\ Decryptable(file.profiles) # 1..Len(file.profiles)) =>
    \A entries \in {file.profiles}, listed \in {list(Store)} :
      /\ listed.result = "ok"
      /\ Len(listed.value) = Cardinality(Decryptable(entries))
      /\ NamesOf(listed.value) = {Field(entries[i], "name") : i \in Decryptable(entries)}
      /\ \A i \in Decryptable(entries) :
           /\ get(Store, Field(entries[i], "name")).result = "ok"
           /\ SameNameUriDatabase(get(Store, Field(entries[i], "name")).value,
                                  decryptProfile(entries[i]).profile)
           /\ SameNameUriDatabase(MapGet(listed.value, Field(entries[i], "name")),
                                  decryptProfile(entries[i]).profile)
      /\ \A i \in (1..Len(entries)) \ Decryptable(entries) :
           (\A j \in Decryptable(entries) :
              Field(entries[j], "name") # Field(entries[i], "name"))
             => get(Store, Field(entries[i], "name")).value = Null

\* list() has returned one profile from a file of three entries, the first
\* and the last of which do not decrypt.
C20_Witness ==
  /\ file # Absent
  /\ Len(file.profiles) = 3
  /\ Decryptable(file.profiles) = {2}
  /\ ret.op = "list"
  /\ Len(ret.value) = 1
  /\ ret.value = Listed


-----------------------------------------------------------------------------
(* The store: validation, update, what is written, and the cache           *)

ValidationErrors == {"NameRequired", "InvalidName", "UriRequired", "InvalidUri"}

\* A name that is not of letters, digits, underscores and hyphens, or a uri
\* of neither scheme.
InvalidNameOrUri(name, uri) ==
  \/ name \notin StoreNames
  \/ uri.t # "string"
  \/ ~(StartsWith(uri.v, <<"mongodb://">>) \/ StartsWith(uri.v, <<"mongodb+srv://">>))

\* The step is an add of a profile with such a name or uri, or an update of
\* a listed profile with such a uri.
RejectedCall ==
  \/ ret'.op = "add" /\ InvalidNameOrUri(Field(ret'.arg, "name"), Field(ret'.arg, "uri"))
  \/ /\ ret'.op = "update"
     /\ MapHas(Listed, ret'.name)
     /\ "uri" \in DOMAIN ret'.arg
     /\ InvalidNameOrUri(ret'.name, ret'.arg["uri"])

\* C21: an add of a profile with an invalid name or uri, and an update whose
\* merged result has an invalid uri, throw a validation error; the file and
\* its mtime are as before, and list() and get() of every name return what
\* they returned before the call.
C21_RejectedCallsApplyNothing ==
  [][RejectedCall =>
       /\ ret'.result \in ValidationErrors
       /\ file' = file
       /\ fileMtime' = fileMtime
       /\ Listed' = Listed
       /\ \A name \in StoreNames : get(Store, name).value' = get(Store, name).value]_vars

\* An update of a listed profile has thrown on the uri of its merged result.
C21_Witness ==
  /\ ret.op = "update"
  /\ ret.result = "InvalidUri"
  /\ MapHas(Listed, ret.name)
  /\ Len(Listed) = 2


MetadataKeys == {"createdAt", "isDefault", "description", "lastUsed", "environment"}

\* The profile `after` is `before` with the top-level fields of `fields`
\* replaced, its metadata merged key by key, and its name kept.
UpdatedBy(after, before, fields, name) ==
  /\ NameOf(after) = name
  /\ \A k \in {"uri", "database", "alias"} :
       Field(after, k) = IF k \in DOMAIN fields THEN fields[k] ELSE Field(before, k)
  /\ \A k \in MetadataKeys :
       SameValue(OptField(Field(after, "metadata"), k),
                 IF k \in DOMAIN SpreadOf(Field(fields, "metadata"))
                 THEN Field(fields, "metadata").v[k]
                 ELSE OptField(Field(before, "metadata"), k))

\* C22: an update(name, fields) that returns true leaves the profile of that
\* name with exactly the top-level fields of fields replaced, its metadata
\* merged key by key, and name as its name whatever name fields carries; the
\* same names are listed, and every other profile is as before, in what
\* list() returns and in the file.
C22_UpdateMerges ==
  [][(ret'.op = "update" /\ ret'.value = Bool(TRUE)) =>
       \A name \in {ret'.name}, before \in {Listed} :
         \A after \in {Listed', OnDisk'} :
           /\ NamesOf(after) = NamesOf(before)
           /\ Len(after) = Len(before)
           /\ UpdatedBy(MapGet(after, name).v, MapGet(before, name).v, ret'.arg, name)
           /\ \A other \in NamesOf(before) \ {name} :
                /\ SameButIsDefault(MapGet(after, other).v, MapGet(before, other).v)
                /\ IsDefault(MapGet(after, other).v) = IsDefault(MapGet(before, other).v)]_vars

\* An update whose fields carry another name, a uri and a metadata key has
\* returned true on a profile that was the default, beside another profile.
C22_Witness ==
  /\ ret.op = "update"
  /\ ret.value = Bool(TRUE)
  /\ "name" \in DOMAIN ret.arg
  /\ ret.arg["name"] # ret.name
  /\ Len(Listed) = 2
  /\ IsDefault(MapGet(Listed, ret.name).v)
  /\ OptField(MapGet(Listed, ret.name), "uri") = UriLong


-----------------------------------------------------------------------------
(* The manager: breakers of different names, test, and the pool            *)

\* The step is one of a connect for the name n: its call, or the settling
\* of one of its awaits.
ConnectStepFor(n) ==
  \/ \E profile \in PoolProfiles : profile.name = n /\ ConnectCall(profile)
  \/ \E task \in {u \in BagToSet(tasks) : u.op = "connect" /\ u.profile.name = n},
        ok \in BOOLEAN :
       \/ PingSettles(task, ok)
       \/ ClientConnectSettles(task, ok)
       \/ CreatePingSettles(task, ok)

\* C23: every step of a connect for a name, whether it fails, is rejected or
\* succeeds, leaves the breaker record of every other name as it was; and a
\* connect is rejected as 'temporarily disabled' only while the breaker of
\* its own name is open.
C23_BreakersAreIndependent ==
  [][\A n \in ManagerNames :
       ConnectStepFor(n) =>
         /\ \A other \in ManagerNames \ {n} :
              /\ Has(circuitBreakers', other) = Has(circuitBreakers, other)
              /\ Has(circuitBreakers, other) =>
                   circuitBreakers'[other] = circuitBreakers[other]
         /\ (settled' # settled /\ settled'.result = Thrown(Disabled)) =>
              BreakerState(circuitBreakers, n) = "open"]_vars

\* A connect for b has just succeeded while the breaker of a is open.
C23_Witness ==
  /\ settled.attempt = "succeeded"
  /\ Has(connections, NameB)
  /\ ~Has(circuitBreakers, NameB)
  /\ BreakerState(circuitBreakers, NameA) = "open"
  /\ streak[NameB] = 0


\* The step is one of a test: its call, or the settling of one of its awaits.
TestStep ==
  \/ \E profile \in TestProfiles : TestStarts(profile)
  \/ \E task \in {u \in BagToSet(tasks) : u.op = "test"} :
       \/ \E ok \in BOOLEAN : TestConnectSettles(task, ok) \/ TestCloseSettles(task, ok)
       \/ \E serverStatus \in ServerStatusReplies, buildInfo \in BuildInfoReplies :
            TestQueriesSettle(task, serverStatus, buildInfo)

\* C24: every step of a test, whatever its outcome, leaves the pool and
\* every breaker record as they were; and a test of a profile whose client
\* constructs goes on to connect whatever the breaker of its name, so it is
\* never rejected as 'temporarily disabled'.
C24_TestLeavesPoolAndBreakers ==
  [][TestStep =>
       /\ connections' = connections
       /\ circuitBreakers' = circuitBreakers
       /\ settled' # settled => settled'.result # Thrown(Disabled)
       /\ \A profile \in TestProfiles :
            (TestStarts(profile) /\ ClientConstructs(profile)) =>
              \E task \in BagToSet(tasks') :
                task.op = "test" /\ task.pc = "testConnect"]_vars

\* A test of the profile a has returned isConnected = false while a is
\* pooled and the breaker of a is open after three failures.
C24_Witness ==
  /\ settled.op = "test"
  /\ settled.result.kind = "returned"
  /\ OptField(settled.result.value, "isConnected") = Bool(FALSE)
  /\ settled.client = "failed"
  /\ BreakerState(circuitBreakers, NameA) = "open"
  /\ Failures(circuitBreakers, NameA) = 3
  /\ Has(connections, NameA)


\* The uris the calls of the model carry.
Plaintexts == {UriPlain, UriSrv, UriLong, Str(<<"http://", "h">>), Str(<<"h">>)}

\* The values a stored entry holds, those of its metadata included.
ValuesOf(entry) ==
  {entry[k] : k \in DOMAIN entry}
    \cup {Field(entry, "metadata").v[k] : k \in DOMAIN SpreadOf(Field(entry, "metadata"))}

\* Every entry of the container has no uri field, holds no uri of the model
\* as a value, and has an encryptedUri that is text in hex, not the bytes of
\* a uri, with the iv it decrypts under.
NoPlaintextUri(container) ==
  \A i \in 1..Len(container.profiles) :
    \A entry \in {container.profiles[i]} :
      /\ "uri" \notin DOMAIN entry
      /\ ValuesOf(entry) \cap Plaintexts = {}
      /\ Field(entry, "encryptedUri").t = "string"
      /\ Field(entry, "iv").t = "string"
      /\ \A j \in 1..Len(entry["encryptedUri"].v) :
           entry["encryptedUri"].v[j] \in {HexDigits[d] : d \in 1..16}
      /\ \A uri \in Plaintexts : HexDecode(entry["encryptedUri"].v) # Utf8Encode(uri.v)
      /\ decryptProfile(entry).ok
      /\ decryptProfile(entry).profile.uri \in Plaintexts

\* C25: in every reachable state the entries of the file carry their uri
\* only as ciphertext with its iv, and so do the entries of the text
\* export() has returned.
C25_NoPlaintextUriOnDisk ==
  /\ file # Absent => NoPlaintextUri(file)
  /\ ret.op = "export" => NoPlaintextUri(ret.value.v)

\* export() has returned a container of two entries, one of them of the
\* srv uri, from a file saved a millisecond after the store's first call.
C25_Witness ==
  /\ ret.op = "export"
  /\ file # Absent
  /\ Len(ret.value.v.profiles) = 2
  /\ \E i \in 1..2 : decryptProfile(ret.value.v.profiles[i]).profile.uri = UriSrv
  /\ fileMtime > 1


\* What a method returns from a store without a file.
EmptyStoreResult(r) ==
  /\ r.result # IoError
  /\ r.op = "list" => r.result = "ok" /\ r.value = <<>>
  /\ r.op \in {"get", "getDefault"} => r.result = "ok" /\ r.value = Null
  /\ r.op \in {"remove", "update", "setDefault"} => r.result = "ok" /\ r.value = Bool(FALSE)
  /\ r.op = "export" => r.result = "ok" /\ r.value.v.profiles = <<>>

\* In the calls of the methods `ops`: a call during which a file system call
\* threw an error other than a missing file throws that error; and a call
\* on a store without a file, no file system call having thrown, returns
\* what an empty store returns.
PropagatesIn(ops) ==
  ret'.op \in ops =>
    /\ ret'.raised # "none" => ret'.result = ret'.raised
    /\ (file = Absent /\ ret'.raised = "none") => EmptyStoreResult(ret')

\* C26: in every method of the store, an I/O error other than a missing file
\* raised by a read or a write of the backing file is thrown to the caller,
\* and a missing file is an empty store, not an error.
C26_IoErrorsPropagate ==
  [][PropagatesIn({"list", "get", "getDefault", "add", "remove", "update", "setDefault",
                   "export", "import"})]_vars

\* The same, in every method but import.
IoErrorsPropagateButInImport ==
  [][PropagatesIn({"list", "get", "getDefault", "add", "remove", "update", "setDefault",
                   "export"})]_vars


-----------------------------------------------------------------------------
(* The store: a save, one file system call at a time                        *)

FsFrame == UNCHANGED <<file, fileMtime, cachedProfiles, lastModified, ret, now, managerVars>>

\* A mutation reaches saveProfiles with the text it is going to write.
SaveProfiles(w) ==
  /\ savers[w].pc = "idle"
  /\ \E len \in TextLengths :
       savers' = [savers EXCEPT ![w] = [pc |-> "loadStorage", len |-> len, fd |-> NoInode,
                                        result |-> "none"]]
  /\ UNCHANGED <<paths, inodes>>
  /\ FsFrame

\* await this.loadStorage(): readFile of the target and JSON.parse of what it
\* holds at that moment; an absent file gives the empty container.
LoadStorage(w) ==
  /\ savers[w].pc = "loadStorage"
  /\ savers' = [savers EXCEPT ![w] =
                  IF paths.target # NoInode /\ ~IsWhole(inodes[paths.target])
                  THEN [Idle EXCEPT !.result = "SyntaxError"]
                  ELSE [@ EXCEPT !.pc = "open"]]
  /\ UNCHANGED <<paths, inodes>>
  /\ FsFrame

\* fs.writeFile(tempFile, ...), its open(tempFile, "w"): the path is created,
\* or the file it names is truncated.
OpenTemp(w) ==
  /\ savers[w].pc = "open"
  /\ \E fd \in {IF paths.temp = NoInode THEN FreeInode(paths, savers) ELSE paths.temp} :
       /\ paths' = [paths EXCEPT !.temp = fd]
       /\ inodes' = [inodes EXCEPT ![fd] = Truncated]
       /\ savers' = [savers EXCEPT ![w] = [@ EXCEPT !.pc = "write", !.fd = fd]]
  /\ FsFrame

\* fs.writeFile(tempFile, ...), its write and close, through the descriptor
\* the open returned, whatever path names that file by now.
WriteTemp(w) ==
  /\ savers[w].pc = "write"
  /\ \E s \in {[savers EXCEPT ![w] = [@ EXCEPT !.pc = "rename", !.fd = NoInode]]} :
       /\ savers' = s
       /\ inodes' = Collected([inodes EXCEPT ![savers[w].fd] =
                                  WrittenOver(@, Text(w, savers[w].len))], paths, s)
  /\ UNCHANGED paths
  /\ FsFrame

\* fs.rename(tempFile, this.profilesFile): the target names the file the
\* temporary path named; with no temporary path the call throws ENOENT.
\* paths.by keeps the save whose rename landed last, and its text's length.
RenameTemp(w) ==
  /\ savers[w].pc = "rename"
  /\ IF paths.temp = NoInode
     THEN /\ savers' = [savers EXCEPT ![w] = [Idle EXCEPT !.result = "ENOENT"]]
          /\ UNCHANGED <<paths, inodes>>
     ELSE \E d \in {[target |-> paths.temp, temp |-> NoInode,
                       by |-> <<w, savers[w].len>>]} :
            /\ paths' = d
            /\ savers' = [savers EXCEPT ![w] = [Idle EXCEPT !.result = "ok"]]
            /\ inodes' = Collected(inodes, d, savers')
  /\ FsFrame

SaveNext ==
  \E w \in Savers :
    \/ SaveProfiles(w)
    \/ LoadStorage(w)
    \/ OpenTemp(w)
    \/ WriteTemp(w)
    \/ RenameTemp(w)

SpecSave == StoreInit /\ [][SaveNext]_vars

\* The same, a mutation being called only when none is in progress.
SaveInTurnNext ==
  \E w \in Savers :
    \/ (\A v \in Savers : savers[v].pc = "idle") /\ SaveProfiles(w)
    \/ LoadStorage(w)
    \/ OpenTemp(w)
    \/ WriteTemp(w)
    \/ RenameTemp(w)

SpecSaveInTurn == StoreInit /\ [][SaveInTurnNext]_vars

\* The same, a mutation being called only while no save in progress is past
\* its loadStorage: the mutations that run together have all loaded the
\* profile set before any of them writes.
SaveRaceNext ==
  \E w \in Savers :
    \/ (\A v \in Savers : savers[v].pc \in {"idle", "loadStorage"}) /\ SaveProfiles(w)
    \/ LoadStorage(w)
    \/ OpenTemp(w)
    \/ WriteTemp(w)
    \/ RenameTemp(w)

SpecSaveRace == StoreInit /\ [][SaveRaceNext]_vars

\* C27: at every point of every interleaving of the mutations of a store, two
\* running at the same time included, the profiles file is absent or holds
\* one complete container, the text a single save wrote.
C27_TargetNeverHalfWritten ==
  paths.target # NoInode => IsWhole(inodes[paths.target])

\* A mutation failed in JSON.parse because it read the file half-written.
SomeSaveReadHalfWritten == \E w \in Savers : savers[w].result = "SyntaxError"

NoSaveReadsHalfWritten == ~SomeSaveReadHalfWritten


-----------------------------------------------------------------------------
(* The store: what the cache serves                                         *)

CacheNext ==
  \/ Add
  \/ Remove
  \/ List
  \/ ListAgain
  \/ ListAfterWrite
  \/ ForeignWrite

SpecStoreCache == StoreInit /\ [][CacheNext]_vars

\* The list() of this step follows a list() that returned, with no write and
\* no change of the file in between.
ListAgainStep == ret'.op = "listAgain"

ServedFromCache == ret'.result = "ok" /\ ret'.raised = "none" /\ ret'.value = ret.value

\* C28: whatever the store holds, once a list() has loaded the file, a
\* further list() with no write and no change of the file in between returns
\* the same result and does not read the file again.
C28_ListAgainServedFromCache == [][ListAgainStep => ServedFromCache]_vars

\* The same for a store whose file gave list() at least one profile.
ListAgainServedWhenNotEmpty ==
  [][ListAgainStep /\ Len(ret.value) > 0 => ServedFromCache]_vars

\* A list() of an existing file that lists nothing returns the same result
\* when repeated, having read the file again.
ListAgainOfNothingReads ==
  [][ListAgainStep /\ Len(ret.value) = 0 /\ file # Absent =>
       ret'.raised = IoError /\ ret'.result = IoError]_vars


\* The last call was a mutation that succeeded and saved the file.
Wrote ==
  /\ ret.op \in {"add", "remove", "update", "setDefault"}
  /\ ret.result = "ok"
  /\ ret.op \in {"remove", "setDefault"} => ret.value = Bool(TRUE)

\* C29: after a mutation that succeeded, the modification time the store
\* recorded is the modification time of the file it wrote (so that the next
\* read finds the cache fresh).
C29_RecordedTimeIsFileTime == Wrote => lastModified = fileMtime

\* The read that follows a mutation whose recorded time is later than the
\* file's reads the file again.
ListAfterLateRecordReads ==
  [][ret'.op = "listAfterWrite" /\ Wrote /\ lastModified # fileMtime =>
       ret'.raised = IoError]_vars

\* The record is never earlier than the file's time, and at most the delay
\* between the write and the return of the rename later.
RecordedTimeWithinDelay ==
  Wrote => \E d \in IoDelays : lastModified = fileMtime + d


-----------------------------------------------------------------------------
(* The manager: the pool under racing connects                              *)

\* Every entry of the pool is under the name of its own profile, and no two
\* names share an entry.
OneEntryPerName(pool) ==
  /\ DOMAIN pool \subseteq ManagerNames
  /\ \A n \in DOMAIN pool : pool[n].profile.name = n
  /\ \A n1, n2 \in DOMAIN pool : pool[n1].id = pool[n2].id => n1 = n2

\* This step is the pool write of the call task: createConnection's
\* this.connections.set, after its ping.
PoolWrite(task) ==
  /\ task.pc = "createPing"
  /\ tasks' = Others(task)
  /\ settled'.attempt = "succeeded"

\* The pool after the write of task: the name maps to the entry this call
\* made, whatever it mapped to before, and no other name is touched.
WrittenLast(task) ==
  /\ DOMAIN connections' = DOMAIN connections \cup {task.profile.name}
  /\ connections'[task.profile.name].id = FreshId
  /\ connections'[task.profile.name].id \notin PoolIds(connections)
  /\ connections'[task.profile.name].profile = task.profile
  /\ \A n \in DOMAIN connections : n # task.profile.name => connections'[n] = connections[n]

\* C30: the pool holds at most one entry per profile name in every state, and
\* when connect calls for one name interleave and both open a connection,
\* each pool write replaces the entry of the name: the pool ends up with the
\* connection written last.
C30_LastPoolWriteWins ==
  [][/\ OneEntryPerName(connections')
     /\ \A task \in BagToSet(tasks) : PoolWrite(task) => WrittenLast(task)]_vars

\* Two connect calls for NameA were both called on an empty pool, both opened
\* a connection, and the second pool write has just replaced the first: the
\* first entry had id 1, and no call of this specification that found an
\* entry goes on to write.
C30_Witness ==
  /\ settled.op = "connect"
  /\ settled.attempt = "succeeded"
  /\ DOMAIN connections = {NameA}
  /\ connections[NameA].id = 2


-----------------------------------------------------------------------------
(* The store: two writers                                                   *)

NoSaveInProgress == \A w \in Savers : savers[w].pc = "idle"

\* C31: when mutations that all loaded the profile set before any of them
\* saved have finished, the file holds exactly the text of the save whose
\* rename landed last, and never a mix of two texts or a damaged one.
C31_LastRenameWins ==
  NoSaveInProgress /\ paths.target # NoInode =>
    inodes[paths.target] = Text(paths.by[1], paths.by[2])

\* The weaker half: the file the mutations leave is the text of one save.
FinalFileIsWhole ==
  NoSaveInProgress /\ paths.target # NoInode => IsWhole(inodes[paths.target])

\* The file left holds the whole text of a save whose rename threw ENOENT.
FileOfFailedRename ==
  /\ NoSaveInProgress
  /\ paths.target # NoInode
  /\ \E w \in Savers, len \in TextLengths :
       /\ inodes[paths.target] = Text(w, len)
       /\ savers[w].result = "ENOENT"
       /\ paths.by[1] # w

NoFileOfFailedRename == ~FileOfFailedRename


-----------------------------------------------------------------------------
(* The manager: the breaker after a connect, and its cooldown               *)

\* The calls of connect in flight.
Connecting == {task \in BagToSet(tasks) : task.op = "connect"}

\* This step is the successful return of the connect call task: by reuse of
\* the pooled connection whose ping succeeded, or after createConnection.
ConnectReturns(task) == PingSettles(task, TRUE) \/ CreatePingSettles(task, TRUE)

\* C32: whenever connect returns successfully, the reuse of a healthy pooled
\* connection included, the breaker of that name is not open afterwards.
C32_NotOpenAfterConnect ==
  [][\A task \in Connecting :
       ConnectReturns(task) => BreakerState(circuitBreakers', task.profile.name) # "open"]_vars

\* The same for the returns after a fresh connection only.
NotOpenAfterFreshConnect ==
  [][\A task \in Connecting :
       CreatePingSettles(task, TRUE) => ~Has(circuitBreakers', task.profile.name)]_vars

\* A return by reuse leaves the breakers as they were.
ReuseLeavesBreakers ==
  [][\A task \in Connecting : PingSettles(task, TRUE) => UNCHANGED circuitBreakers]_vars


-----------------------------------------------------------------------------
(* The manager: the clients the pool lets go of                             *)

\* A call is suspended in closeConnection of the entry id: close() has been
\* called on its client.
CloseIssued(id) ==
  \E task \in BagToSet(tasks) :
    \/ task.pc \in {"sweepClose", "close"} /\ task.existing = id
    \/ task.pc = "closeAll" /\ id \in PoolIds(task.found)

\* The entries this step takes out of the Map, by set, delete or clear.
Dropped == PoolIds(connections) \ PoolIds(connections')

\* C33: no client handle is leaked. The Map is the only place that keeps a
\* client for closing, so an open client is in the pool in every quiescent
\* state exactly if no entry ever leaves the Map without close() having been
\* called on its client.
C33_NoClientLeaked == [][\A id \in Dropped : CloseIssued(id)]_vars


-----------------------------------------------------------------------------
(* The manager: the reaper beside a connect                                 *)

\* While the sweep task was suspended closing the entry it found idle, a
\* connect for that name returned: the Map holds another entry under the
\* name, or the same entry with lastUsed refreshed.
ConnectedMeanwhile(task) ==
  /\ Has(connections, task.name)
  /\ \/ connections[task.name].id # task.existing
     \/ ~IsIdle(connections[task.name], task.startTime)

\* C34: the reaper evicts only the connection it found idle: when a connect
\* for the name returned successfully while the sweep was closing it, the
\* pool still holds a connection for the name after the sweep's step.
C34_ReaperSparesReconnected ==
  [][\A task \in Suspended("sweepClose"), ok \in BOOLEAN :
       SweepCloseSettles(task, ok) /\ ConnectedMeanwhile(task) =>
         Has(connections', task.name)]_vars

\* What the sweep does instead: the name is gone from the Map, whatever it
\* held.
SweepDeletesByName ==
  [][\A task \in Suspended("sweepClose"), ok \in BOOLEAN :
       SweepCloseSettles(task, ok) => ~Has(connections', task.name)]_vars


\* This step is a connect for the name n being rejected because the breaker
\* is open: at the call, or after the ping of the pooled entry failed.
RejectedStep(n) ==
  /\ settled'.result = Thrown(Disabled)
  /\ \/ \E profile \in ConnectProfiles \cup PoolProfiles :
          profile.name = n /\ ConnectCall(profile) /\ tasks' = tasks
     \/ \E task \in Connecting :
          task.profile.name = n /\ PingSettles(task, FALSE) /\ tasks' = Others(task)

\* C35: a connect rejected because the breaker is open leaves every breaker
\* record as it was: no failure is counted and nextAttempt is not moved,
\* however many calls are rejected.
C35_RejectionLeavesBreaker ==
  [][\A n \in ManagerNames : RejectedStep(n) => UNCHANGED circuitBreakers]_vars

\* A connect for NameA has been rejected at a later time than the failure
\* that opened the breaker, and the record is the one that failure left.
C35_Witness ==
  /\ settled.result = Thrown(Disabled)
  /\ BreakerState(circuitBreakers, NameA) = "open"
  /\ circuitBreakers[NameA].failures = maxFailures
  /\ now > circuitBreakers[NameA].lastFailure.v
  /\ circuitBreakers[NameA].nextAttempt.v = circuitBreakers[NameA].lastFailure.v + circuitBreakerTimeout


\* This step settles a connect call for the name n, at the call or at one of
\* its awaits.
ConnectSettlesFor(n) ==
  \/ \E profile \in ConnectProfiles \cup PoolProfiles :
       profile.name = n /\ ConnectCall(profile) /\ tasks' = tasks
  \/ \E task \in Connecting, ok \in BOOLEAN :
       /\ task.profile.name = n
       /\ tasks' = Others(task)
       /\ PingSettles(task, ok) \/ ClientConnectSettles(task, ok) \/ CreatePingSettles(task, ok)

\* This step is a connect for n reaching the breaker check: called with no
\* entry pooled under the name, or resumed after the ping of the entry failed.
ReachesBreaker(n) ==
  \/ \E profile \in ConnectProfiles \cup PoolProfiles :
       profile.name = n /\ ~Has(connections, n) /\ ConnectCall(profile)
  \/ \E task \in Connecting : task.profile.name = n /\ PingSettles(task, FALSE)

-----------------------------------------------------------------------------
(* The manager: recovery                                                    *)

NotOpen(n) == BreakerState(circuitBreakers, n) \notin {"open", "half-open"}

\* C37: no name is locked out forever. With the server reachable for good,
\* time advancing and connect being called, from some point on the name is
\* pooled and its breaker is closed.
C37_NameRecovers == <>[](Has(connections, NameA) /\ NotOpen(NameA))

\* The name is pooled from some point on, and no connect is rejected or fails
\* after that.
NameIsServedAgain ==
  <>[](Has(connections, NameA) /\ settled.result.kind # "thrown")


-----------------------------------------------------------------------------
(* The store: a mutation whose write fails                                  *)

Mutations == {"add", "remove", "update", "setDefault"}

\* The step is a mutation in which the write of the temporary file threw.
WriteFailed == ret'.op \in Mutations /\ ret'.raised = IoError

\* C38: when the write inside a mutation fails with an I/O error, the
\* mutation is not visible afterwards: the file is unchanged, and list(),
\* get() of every name and getDefault() return what they returned before
\* the call.
C38_FailedWriteInvisible ==
  [][WriteFailed =>
       /\ ret'.result = IoError
       /\ file' = file
       /\ Listed' = Listed
       /\ \A name \in StoreNames : get(Store, name).value' = get(Store, name).value
       /\ getDefault(Store).value' = getDefault(Store).value]_vars

\* The error is thrown and the file is as it was.
FailedWriteLeavesFile ==
  [][WriteFailed => ret'.result = IoError /\ file' = file /\ fileMtime' = fileMtime]_vars

\* On a store with no file yet the failed mutation is not visible.
FailedFirstWriteInvisible ==
  [][WriteFailed /\ file = Absent => Listed' = Listed]_vars


-----------------------------------------------------------------------------
(* The store: the entries a mutation leaves in the file                     *)

\* The names of the entries a file holds, and of those that decrypt.
EntryNames(f) ==
  IF f = Absent THEN {} ELSE {Field(f.profiles[i], "name") : i \in 1..Len(f.profiles)}

DecryptableNames(f) ==
  IF f = Absent THEN {} ELSE {Field(f.profiles[i], "name") : i \in Decryptable(f.profiles)}

\* C39: a mutation that targets one name never removes the persisted entry
\* of another name: every entry of the file that is not the target is in the
\* file after the call, the entries that do not decrypt included.
C39_OtherEntriesKept ==
  [][ret'.op \in Mutations => (EntryNames(file) \ {ret'.name}) \subseteq EntryNames(file')]_vars

\* The same for the entries that decrypt.
OtherDecryptableEntriesKept ==
  [][ret'.op \in Mutations =>
       (DecryptableNames(file) \ {ret'.name}) \subseteq DecryptableNames(file')]_vars

\* A mutation that saves leaves in the file exactly the entries that
\* decrypted, with the change it makes.
SaveKeepsOnlyDecryptable ==
  [][(ret'.op \in Mutations /\ file' # file) =>
       EntryNames(file') \subseteq (DecryptableNames(file) \cup {ret'.name})]_vars


-----------------------------------------------------------------------------
(* The manager: the pool after a fresh attempt                              *)

\* C40: when a fresh attempt of connect fails, the error is thrown to the
\* caller and the pool is as it was, a stale entry whose ping failed
\* included; when it succeeds, the pool maps the name to the new connection
\* with lastUsed the current time and no cached health.
C40_PoolAfterFreshAttempt ==
  [][/\ \A n \in ManagerNames :
          (ConnectSettlesFor(n) /\ settled'.attempt = "failed") =>
            /\ settled'.result \in {Thrown(InvalidScheme), Thrown(NetworkError)}
            /\ UNCHANGED connections
     /\ \A task \in Connecting :
          CreatePingSettles(task, TRUE) =>
            /\ settled'.result = Returned(Undefined)
            /\ connections' =
                 Put(connections, task.profile.name,
                     [id |-> FreshId, profile |-> task.profile, lastUsed |-> DateOf(now),
                      healthCache |-> Undefined, healthCacheExpiry |-> Undefined])]_vars

\* A fresh attempt for NameA has failed at a later time than the pooled entry
\* of the name was last used: the entry is still pooled.
C40_Witness ==
  /\ settled.op = "connect"
  /\ settled.attempt = "failed"
  /\ Has(connections, NameA)
  /\ Has(circuitBreakers, NameA)
  /\ circuitBreakers[NameA].lastFailure.v > connections[NameA].lastUsed.v

=============================================================================
